---- MODULE Spec2Model ----
(***************************************************************************)
(* Model of the AMM prediction-market canister (src/backend/src/lib.rs).   *)
(* The ledger is the six thread-local stores of the canister; every update *)
(* call is one action, executed to completion (IC message execution).      *)
(* Amounts are u64 in the source; within the bounds below no intermediate  *)
(* value comes near 2^31, so plain integers model them without wrap-around *)
(* (saturating_sub is modelled explicitly).                                *)
(***************************************************************************)
EXTENDS Integers, Sequences, FiniteSets, TLC

\* ---------------------------------------------------------------------------
\* Program constants (lib.rs:8-10)
\* ---------------------------------------------------------------------------
INITIAL_LIQUIDITY == 500
TRADE_FEE == 3
MIN_DEPOSIT == 1000

\* ---------------------------------------------------------------------------
\* Bounds of the model
\* ---------------------------------------------------------------------------
MaxCalls == 5
MaxMarkets == 1

Users == {"u1", "u2"}
Deployer == "u1"
MarketIds == 1..MaxMarkets
TokenTypes == {"Yes", "No"}
DepositAmounts == {999, 2000}
CreateAmounts == {999, 1000}
BuyAmounts == {0, 1, 100, 501}
QuoteAmounts == {100}

NoPrincipal == "none"

\* ---------------------------------------------------------------------------
\* Result<T, PredictionMarketError>
\* ---------------------------------------------------------------------------
Ok(v) == [err |-> "Ok", val |-> v]
Err(e) == [err |-> e, val |-> 0]

\* u64::saturating_sub
saturating_sub(a, b) == IF a >= b THEN a - b ELSE 0

\* ---------------------------------------------------------------------------
\* Pricing math
\* ---------------------------------------------------------------------------
\* variant of calculate_tokens_out: only a pool with both reserves at zero is
\* taken as empty
calculate_tokens_out_both_zero(yes_reserve, no_reserve, icp_in, buy_yes) ==
    IF yes_reserve = 0 /\ no_reserve = 0
    THEN Err("InsufficientLiquidity")
    ELSE LET icp_after_fee == (icp_in * (1000 - TRADE_FEE)) \div 1000 IN
         IF buy_yes
         THEN IF icp_after_fee >= no_reserve
              THEN Err("InsufficientLiquidity")
              ELSE LET k == yes_reserve * no_reserve
                       new_no_reserve == no_reserve - icp_after_fee
                       new_yes_reserve == k \div new_no_reserve
                   IN  IF new_yes_reserve <= yes_reserve
                       THEN Err("InvalidAmount")
                       ELSE Ok(new_yes_reserve - yes_reserve)
         ELSE IF icp_after_fee >= yes_reserve
              THEN Err("InsufficientLiquidity")
              ELSE LET k == yes_reserve * no_reserve
                       new_yes_reserve == yes_reserve - icp_after_fee
                       new_no_reserve == k \div new_yes_reserve
                   IN  IF new_no_reserve <= no_reserve
                       THEN Err("InvalidAmount")
                       ELSE Ok(new_no_reserve - no_reserve)

\* variant of calculate_tokens_out: the fee is computed first and taken off
\* the input
calculate_tokens_out_fee_subtracted(yes_reserve, no_reserve, icp_in, buy_yes) ==
    IF yes_reserve = 0 \/ no_reserve = 0
    THEN Err("InsufficientLiquidity")
    ELSE LET icp_after_fee == icp_in - (icp_in * TRADE_FEE) \div 1000 IN
         IF buy_yes
         THEN IF icp_after_fee >= no_reserve
              THEN Err("InsufficientLiquidity")
              ELSE LET k == yes_reserve * no_reserve
                       new_no_reserve == no_reserve - icp_after_fee
                       new_yes_reserve == k \div new_no_reserve
                   IN  IF new_yes_reserve <= yes_reserve
                       THEN Err("InvalidAmount")
                       ELSE Ok(new_yes_reserve - yes_reserve)
         ELSE IF icp_after_fee >= yes_reserve
              THEN Err("InsufficientLiquidity")
              ELSE LET k == yes_reserve * no_reserve
                       new_yes_reserve == yes_reserve - icp_after_fee
                       new_no_reserve == k \div new_yes_reserve
                   IN  IF new_no_reserve <= no_reserve
                       THEN Err("InvalidAmount")
                       ELSE Ok(new_no_reserve - no_reserve)

\* variant of calculate_tokens_out: the division k / new reserve rounds up
calculate_tokens_out_round_up(yes_reserve, no_reserve, icp_in, buy_yes) ==
    IF yes_reserve = 0 \/ no_reserve = 0
    THEN Err("InsufficientLiquidity")
    ELSE LET icp_after_fee == (icp_in * (1000 - TRADE_FEE)) \div 1000 IN
         IF buy_yes
         THEN IF icp_after_fee >= no_reserve
              THEN Err("InsufficientLiquidity")
              ELSE LET k == yes_reserve * no_reserve
                       new_no_reserve == no_reserve - icp_after_fee
                       new_yes_reserve == (k + new_no_reserve - 1) \div new_no_reserve
                   IN  IF new_yes_reserve <= yes_reserve
                       THEN Err("InvalidAmount")
                       ELSE Ok(new_yes_reserve - yes_reserve)
         ELSE IF icp_after_fee >= yes_reserve
              THEN Err("InsufficientLiquidity")
              ELSE LET k == yes_reserve * no_reserve
                       new_yes_reserve == yes_reserve - icp_after_fee
                       new_no_reserve == (k + new_yes_reserve - 1) \div new_yes_reserve
                   IN  IF new_no_reserve <= no_reserve
                       THEN Err("InvalidAmount")
                       ELSE Ok(new_no_reserve - no_reserve)

\* variant of calculate_tokens_out: only a shrinking target reserve is refused
calculate_tokens_out_allow_equal(yes_reserve, no_reserve, icp_in, buy_yes) ==
    IF yes_reserve = 0 \/ no_reserve = 0
    THEN Err("InsufficientLiquidity")
    ELSE LET icp_after_fee == (icp_in * (1000 - TRADE_FEE)) \div 1000 IN
         IF buy_yes
         THEN IF icp_after_fee >= no_reserve
              THEN Err("InsufficientLiquidity")
              ELSE LET k == yes_reserve * no_reserve
                       new_no_reserve == no_reserve - icp_after_fee
                       new_yes_reserve == k \div new_no_reserve
                   IN  IF new_yes_reserve < yes_reserve
                       THEN Err("InvalidAmount")
                       ELSE Ok(new_yes_reserve - yes_reserve)
         ELSE IF icp_after_fee >= yes_reserve
              THEN Err("InsufficientLiquidity")
              ELSE LET k == yes_reserve * no_reserve
                       new_yes_reserve == yes_reserve - icp_after_fee
                       new_no_reserve == k \div new_yes_reserve
                   IN  IF new_no_reserve < no_reserve
                       THEN Err("InvalidAmount")
                       ELSE Ok(new_no_reserve - no_reserve)

calculate_tokens_out(yes_reserve, no_reserve, icp_in, buy_yes) ==
    IF yes_reserve = 0 \/ no_reserve = 0
    THEN Err("InsufficientLiquidity")
    ELSE LET icp_after_fee == (icp_in * (1000 - TRADE_FEE)) \div 1000 IN
         IF buy_yes
         THEN IF icp_after_fee >= no_reserve
              THEN Err("InsufficientLiquidity")
              ELSE LET k == yes_reserve * no_reserve
                       new_no_reserve == no_reserve - icp_after_fee
                       new_yes_reserve == k \div new_no_reserve
                   IN  IF new_yes_reserve <= yes_reserve
                       THEN Err("InvalidAmount")
                       ELSE Ok(new_yes_reserve - yes_reserve)
         ELSE IF icp_after_fee >= yes_reserve
              THEN Err("InsufficientLiquidity")
              ELSE LET k == yes_reserve * no_reserve
                       new_yes_reserve == yes_reserve - icp_after_fee
                       new_no_reserve == k \div new_yes_reserve
                   IN  IF new_no_reserve <= no_reserve
                       THEN Err("InvalidAmount")
                       ELSE Ok(new_no_reserve - no_reserve)

calculate_icp_out(yes_reserve, no_reserve, tokens_in, sell_yes) ==
    IF yes_reserve = 0 \/ no_reserve = 0
    THEN Err("InsufficientLiquidity")
    ELSE IF sell_yes
         THEN IF tokens_in >= yes_reserve
              THEN Err("InvalidAmount")
              ELSE LET k == yes_reserve * no_reserve
                       new_yes_reserve == yes_reserve - tokens_in
                   IN  IF new_yes_reserve = 0
                       THEN Err("InsufficientLiquidity")
                       ELSE LET new_no_reserve == k \div new_yes_reserve
                                icp_out == new_no_reserve - no_reserve
                            IN  Ok((icp_out * (1000 - TRADE_FEE)) \div 1000)
         ELSE IF tokens_in >= no_reserve
              THEN Err("InvalidAmount")
              ELSE LET k == yes_reserve * no_reserve
                       new_no_reserve == no_reserve - tokens_in
                   IN  IF new_no_reserve = 0
                       THEN Err("InsufficientLiquidity")
                       ELSE LET new_yes_reserve == k \div new_no_reserve
                                icp_out == new_yes_reserve - yes_reserve
                            IN  Ok((icp_out * (1000 - TRADE_FEE)) \div 1000)

\* ---------------------------------------------------------------------------
\* Ledger: the thread-local stores as one record
\*   markets     : HashMap<u64, AmmMarket>
\*   positions   : HashMap<(Principal, u64), UserPosition>
\*   claims      : Vec<RewardClaim>
\*   next_id     : NEXT_MARKET_ID
\*   admin       : Option<Principal>
\*   balances    : HashMap<Principal, u64>
\* ---------------------------------------------------------------------------
AmmMarket(id, pool, who) ==
    [id |-> id,
     yes_reserve |-> INITIAL_LIQUIDITY,
     no_reserve |-> INITIAL_LIQUIDITY,
     icp_liquidity_pool |-> pool,
     status |-> "Open",
     winning_outcome |-> "None",
     creator |-> who,
     admin |-> who,
     total_fees_collected |-> 0]

UserPosition(user, market_id) ==
    [user |-> user, market_id |-> market_id,
     yes_tokens |-> 0, no_tokens |-> 0, claimed_reward |-> FALSE]

RewardClaim(user, market_id, winning_tokens, reward_amount) ==
    [user |-> user, market_id |-> market_id,
     winning_tokens |-> winning_tokens, reward_amount |-> reward_amount]

\* balances.get(&p).unwrap_or(&0)
BalanceOf(L, p) == IF p \in DOMAIN L.balances THEN L.balances[p] ELSE 0

\* balances_map.insert(p, v)
InsertBalance(balances, p, v) ==
    [q \in (DOMAIN balances) \cup {p} |-> IF q = p THEN v ELSE balances[q]]

\* tokens of one side held in a position record
TokensOf(position, token_type) ==
    IF token_type = "Yes" THEN position.yes_tokens ELSE position.no_tokens

\* variant of get_token_price: both sides are priced from the NO reserve
get_token_price_same_side(L, market_id, token_type) ==
    IF market_id \in DOMAIN L.markets
    THEN LET market == L.markets[market_id]
             total_tokens == market.yes_reserve + market.no_reserve
         IN  IF total_tokens = 0
             THEN Ok([num |-> 1, den |-> 2])
             ELSE Ok([num |-> market.no_reserve, den |-> total_tokens])
    ELSE Err("MarketNotFound")

\* get_token_price: price as the exact ratio num/den (f64 in the source)
get_token_price(L, market_id, token_type) ==
    IF market_id \in DOMAIN L.markets
    THEN LET market == L.markets[market_id]
             total_tokens == market.yes_reserve + market.no_reserve
         IN  IF total_tokens = 0
             THEN Ok([num |-> 1, den |-> 2])
             ELSE IF token_type = "Yes"
                  THEN Ok([num |-> market.no_reserve, den |-> total_tokens])
                  ELSE Ok([num |-> market.yes_reserve, den |-> total_tokens])
    ELSE Err("MarketNotFound")

\* TradeResult and the error form of Result<TradeResult, _>
TradeResult(tokens_received, tokens_paid, fee_paid, new_price) ==
    [err |-> "Ok", val |-> tokens_received, tokens_paid |-> tokens_paid,
     fee_paid |-> fee_paid, new_price |-> new_price]

TradeErr(e) ==
    [err |-> e, val |-> 0, tokens_paid |-> 0, fee_paid |-> 0,
     new_price |-> [num |-> 0, den |-> 1]]

\* Every handler returns the ledger it leaves behind and the value it returns
Out(L, res) == [L |-> L, res |-> res]

\* ---------------------------------------------------------------------------
\* create_market
\* ---------------------------------------------------------------------------
\* variant of create_market: a caller may not spend their whole balance on the market
create_market_keep_some(L, caller_principal, initial_icp_liquidity) ==
    IF initial_icp_liquidity < MIN_DEPOSIT
    THEN Out(L, Err("InsufficientDeposit"))
    ELSE LET user_balance == BalanceOf(L, caller_principal) IN
         IF user_balance <= initial_icp_liquidity
         THEN Out(L, Err("InsufficientDeposit"))
         ELSE LET market_id == L.next_id
                  market == AmmMarket(market_id, initial_icp_liquidity, caller_principal)
              IN  Out([L EXCEPT
                         !.next_id = market_id + 1,
                         !.balances = InsertBalance(@, caller_principal,
                                                    user_balance - initial_icp_liquidity),
                         !.markets = [i \in (DOMAIN @) \cup {market_id} |->
                                         IF i = market_id THEN market ELSE @[i]]],
                      Ok(market_id))

\* variant of create_market: takes the identifier before the balance check
create_market_id_first(L, caller_principal, initial_icp_liquidity) ==
    IF initial_icp_liquidity < MIN_DEPOSIT
    THEN Out(L, Err("InsufficientDeposit"))
    ELSE LET user_balance == BalanceOf(L, caller_principal)
             market_id == L.next_id
         IN
         IF user_balance < initial_icp_liquidity
         THEN Out([L EXCEPT !.next_id = market_id + 1], Err("InsufficientDeposit"))
         ELSE LET market == AmmMarket(market_id, initial_icp_liquidity, caller_principal)
              IN  Out([L EXCEPT
                         !.next_id = market_id + 1,
                         !.balances = InsertBalance(@, caller_principal,
                                                    user_balance - initial_icp_liquidity),
                         !.markets = [i \in (DOMAIN @) \cup {market_id} |->
                                         IF i = market_id THEN market ELSE @[i]]],
                      Ok(market_id))

create_market(L, caller_principal, initial_icp_liquidity) ==
    IF initial_icp_liquidity < MIN_DEPOSIT
    THEN Out(L, Err("InsufficientDeposit"))
    ELSE LET user_balance == BalanceOf(L, caller_principal) IN
         IF user_balance < initial_icp_liquidity
         THEN Out(L, Err("InsufficientDeposit"))
         ELSE LET market_id == L.next_id
                  market == AmmMarket(market_id, initial_icp_liquidity, caller_principal)
              IN  Out([L EXCEPT
                         !.next_id = market_id + 1,
                         !.balances = InsertBalance(@, caller_principal,
                                                    user_balance - initial_icp_liquidity),
                         !.markets = [i \in (DOMAIN @) \cup {market_id} |->
                                         IF i = market_id THEN market ELSE @[i]]],
                      Ok(market_id))

\* ---------------------------------------------------------------------------
\* execute_buy_trade (buy_yes_tokens / buy_no_tokens)
\* ---------------------------------------------------------------------------
\* variant of BuyMarketUpdate: drains the whole input, fee included
BuyMarketUpdate_gross(market, icp_amount, tokens_out, token_type) ==
    LET fee == (icp_amount * TRADE_FEE) \div 1000
        m1 == IF token_type = "Yes"
              THEN [market EXCEPT !.no_reserve = @ - icp_amount,
                                  !.yes_reserve = @ + tokens_out]
              ELSE [market EXCEPT !.yes_reserve = @ - icp_amount,
                                  !.no_reserve = @ + tokens_out]
    IN  [m1 EXCEPT !.icp_liquidity_pool = @ + (icp_amount - fee),
                   !.total_fees_collected = @ + fee]

\* variant of BuyMarketUpdate: the whole payment goes to the pool, fee included
BuyMarketUpdate_fee_in_pool(market, icp_amount, tokens_out, token_type) ==
    LET fee == (icp_amount * TRADE_FEE) \div 1000
        drained == (icp_amount * (1000 - TRADE_FEE)) \div 1000
        m1 == IF token_type = "Yes"
              THEN [market EXCEPT !.no_reserve = @ - drained,
                                  !.yes_reserve = @ + tokens_out]
              ELSE [market EXCEPT !.yes_reserve = @ - drained,
                                  !.no_reserve = @ + tokens_out]
    IN  [m1 EXCEPT !.icp_liquidity_pool = @ + icp_amount,
                   !.total_fees_collected = @ + fee]

\* variant of BuyMarketUpdate: the opposite reserve is lowered by the payment
\* less the fee
BuyMarketUpdate_drain_net(market, icp_amount, tokens_out, token_type) ==
    LET fee == (icp_amount * TRADE_FEE) \div 1000
        drained == icp_amount - fee
        m1 == IF token_type = "Yes"
              THEN [market EXCEPT !.no_reserve = @ - drained,
                                  !.yes_reserve = @ + tokens_out]
              ELSE [market EXCEPT !.yes_reserve = @ - drained,
                                  !.no_reserve = @ + tokens_out]
    IN  [m1 EXCEPT !.icp_liquidity_pool = @ + (icp_amount - fee),
                   !.total_fees_collected = @ + fee]

\* lines 406-423: reserves, pool and fee accounting of one market
\* variant of BuyMarketUpdate: the side bought is drained and the opposite side takes the tokens
BuyMarketUpdate_swapped_sides(market, icp_amount, tokens_out, token_type) ==
    LET fee == (icp_amount * TRADE_FEE) \div 1000
        drained == (icp_amount * (1000 - TRADE_FEE)) \div 1000
        m1 == IF token_type = "Yes"
              THEN [market EXCEPT !.yes_reserve = @ - drained,
                                  !.no_reserve = @ + tokens_out]
              ELSE [market EXCEPT !.no_reserve = @ - drained,
                                  !.yes_reserve = @ + tokens_out]
    IN  [m1 EXCEPT !.icp_liquidity_pool = @ + (icp_amount - fee),
                   !.total_fees_collected = @ + fee]

BuyMarketUpdate(market, icp_amount, tokens_out, token_type) ==
    LET fee == (icp_amount * TRADE_FEE) \div 1000
        drained == (icp_amount * (1000 - TRADE_FEE)) \div 1000
        m1 == IF token_type = "Yes"
              THEN [market EXCEPT !.no_reserve = @ - drained,
                                  !.yes_reserve = @ + tokens_out]
              ELSE [market EXCEPT !.yes_reserve = @ - drained,
                                  !.no_reserve = @ + tokens_out]
    IN  [m1 EXCEPT !.icp_liquidity_pool = @ + (icp_amount - fee),
                   !.total_fees_collected = @ + fee]

\* variant of BuyPositionUpdate: insert(key, fresh position) in place of entry(key).or_insert(..)
BuyPositionUpdate_fresh(positions, caller_principal, market_id, tokens_out, token_type) ==
    LET key == <<caller_principal, market_id>>
        position == UserPosition(caller_principal, market_id)
        credited == IF token_type = "Yes"
                    THEN [position EXCEPT !.yes_tokens = @ + tokens_out]
                    ELSE [position EXCEPT !.no_tokens = @ + tokens_out]
    IN  [q \in (DOMAIN positions) \cup {key} |->
            IF q = key THEN credited ELSE positions[q]]

\* variant of BuyPositionUpdate: the two match arms are swapped
BuyPositionUpdate_swapped(positions, caller_principal, market_id, tokens_out, token_type) ==
    LET key == <<caller_principal, market_id>>
        position == IF key \in DOMAIN positions THEN positions[key]
                    ELSE UserPosition(caller_principal, market_id)
        credited == IF token_type = "Yes"
                    THEN [position EXCEPT !.no_tokens = @ + tokens_out]
                    ELSE [position EXCEPT !.yes_tokens = @ + tokens_out]
    IN  [q \in (DOMAIN positions) \cup {key} |->
            IF q = key THEN credited ELSE positions[q]]

\* lines 437-453: entry(key).or_insert(..) and the credit of tokens_out
BuyPositionUpdate(positions, caller_principal, market_id, tokens_out, token_type) ==
    LET key == <<caller_principal, market_id>>
        position == IF key \in DOMAIN positions THEN positions[key]
                    ELSE UserPosition(caller_principal, market_id)
        credited == IF token_type = "Yes"
                    THEN [position EXCEPT !.yes_tokens = @ + tokens_out]
                    ELSE [position EXCEPT !.no_tokens = @ + tokens_out]
    IN  [q \in (DOMAIN positions) \cup {key} |->
            IF q = key THEN credited ELSE positions[q]]

\* variant of BuyValidate: the slippage check rejects an output equal to the minimum
BuyValidate_slip_le(L, caller_principal, market_id, icp_amount, min_tokens_out, token_type) ==
    IF icp_amount = 0
    THEN Err("InvalidAmount")
    ELSE IF BalanceOf(L, caller_principal) < icp_amount
    THEN Err("InsufficientDeposit")
    ELSE IF market_id \notin DOMAIN L.markets
    THEN Err("MarketNotFound")
    ELSE IF L.markets[market_id].status # "Open"
    THEN Err("MarketClosed")
    ELSE LET q == calculate_tokens_out(L.markets[market_id].yes_reserve,
                                       L.markets[market_id].no_reserve,
                                       icp_amount, token_type = "Yes") IN
    IF q.err # "Ok"
    THEN q
    ELSE IF q.val <= min_tokens_out
    THEN Err("SlippageExceeded")
    ELSE q

\* variant of BuyValidate: the output is not compared with the minimum
BuyValidate_no_slip(L, caller_principal, market_id, icp_amount, min_tokens_out, token_type) ==
    IF icp_amount = 0
    THEN Err("InvalidAmount")
    ELSE IF BalanceOf(L, caller_principal) < icp_amount
    THEN Err("InsufficientDeposit")
    ELSE IF market_id \notin DOMAIN L.markets
    THEN Err("MarketNotFound")
    ELSE IF L.markets[market_id].status # "Open"
    THEN Err("MarketClosed")
    ELSE calculate_tokens_out(L.markets[market_id].yes_reserve,
                              L.markets[market_id].no_reserve,
                              icp_amount, token_type = "Yes")

\* variant of BuyValidate: the status of the market is not checked
BuyValidate_no_status(L, caller_principal, market_id, icp_amount, min_tokens_out, token_type) ==
    IF icp_amount = 0
    THEN Err("InvalidAmount")
    ELSE IF BalanceOf(L, caller_principal) < icp_amount
    THEN Err("InsufficientDeposit")
    ELSE IF market_id \notin DOMAIN L.markets
    THEN Err("MarketNotFound")
    ELSE LET q == calculate_tokens_out(L.markets[market_id].yes_reserve,
                                       L.markets[market_id].no_reserve,
                                       icp_amount, token_type = "Yes") IN
    IF q.err # "Ok"
    THEN q
    ELSE IF q.val < min_tokens_out
    THEN Err("SlippageExceeded")
    ELSE q

\* variant of BuyValidate: the market is looked up before the balance
BuyValidate_market_first(L, caller_principal, market_id, icp_amount, min_tokens_out, token_type) ==
    IF icp_amount = 0
    THEN Err("InvalidAmount")
    ELSE IF market_id \notin DOMAIN L.markets
    THEN Err("MarketNotFound")
    ELSE IF L.markets[market_id].status # "Open"
    THEN Err("MarketClosed")
    ELSE IF BalanceOf(L, caller_principal) < icp_amount
    THEN Err("InsufficientDeposit")
    ELSE LET q == calculate_tokens_out(L.markets[market_id].yes_reserve,
                                       L.markets[market_id].no_reserve,
                                       icp_amount, token_type = "Yes") IN
    IF q.err # "Ok"
    THEN q
    ELSE IF q.val < min_tokens_out
    THEN Err("SlippageExceeded")
    ELSE q

\* lines 372-404: the checks of a buy, in the order of the code; Ok(tokens_out)
BuyValidate(L, caller_principal, market_id, icp_amount, min_tokens_out, token_type) ==
    IF icp_amount = 0
    THEN Err("InvalidAmount")
    ELSE IF BalanceOf(L, caller_principal) < icp_amount
    THEN Err("InsufficientDeposit")
    ELSE IF market_id \notin DOMAIN L.markets
    THEN Err("MarketNotFound")
    ELSE IF L.markets[market_id].status # "Open"
    THEN Err("MarketClosed")
    ELSE LET q == calculate_tokens_out(L.markets[market_id].yes_reserve,
                                       L.markets[market_id].no_reserve,
                                       icp_amount, token_type = "Yes") IN
    IF q.err # "Ok"
    THEN q
    ELSE IF q.val < min_tokens_out
    THEN Err("SlippageExceeded")
    ELSE q

\* lines 406-453: the mutations of a buy that passed its checks
BuyApply(L, caller_principal, market_id, icp_amount, tokens_out, token_type) ==
    [L EXCEPT
       !.markets[market_id] = BuyMarketUpdate(@, icp_amount, tokens_out, token_type),
       !.balances = InsertBalance(@, caller_principal,
                                  BalanceOf(L, caller_principal) - icp_amount),
       !.positions = BuyPositionUpdate(@, caller_principal, market_id,
                                       tokens_out, token_type)]

\* lines 455-464: the receipt of a buy, read from the ledger after the mutations
BuyReceipt(L1, market_id, icp_amount, tokens_out, token_type) ==
    LET new_price == get_token_price(L1, market_id, token_type)
        fee_paid == (icp_amount * TRADE_FEE) \div 1000
    IN  IF new_price.err # "Ok"
        THEN TradeErr(new_price.err)
        ELSE TradeResult(tokens_out, icp_amount, fee_paid, new_price.val)

\* variant of execute_buy_trade: the balance is debited before the slippage check
execute_buy_trade_debit_first(L, caller_principal, market_id, icp_amount, min_tokens_out, token_type) ==
    LET v == BuyValidate(L, caller_principal, market_id, icp_amount,
                         min_tokens_out, token_type) IN
    IF v.err = "SlippageExceeded"
    THEN Out([L EXCEPT !.balances =
                 InsertBalance(@, caller_principal,
                               BalanceOf(L, caller_principal) - icp_amount)],
             TradeErr(v.err))
    ELSE IF v.err # "Ok"
    THEN Out(L, TradeErr(v.err))
    ELSE LET L1 == BuyApply(L, caller_principal, market_id, icp_amount, v.val, token_type)
         IN  Out(L1, BuyReceipt(L1, market_id, icp_amount, v.val, token_type))

execute_buy_trade(L, caller_principal, market_id, icp_amount, min_tokens_out, token_type) ==
    LET v == BuyValidate(L, caller_principal, market_id, icp_amount,
                         min_tokens_out, token_type) IN
    IF v.err # "Ok"
    THEN Out(L, TradeErr(v.err))
    ELSE LET L1 == BuyApply(L, caller_principal, market_id, icp_amount, v.val, token_type)
         IN  Out(L1, BuyReceipt(L1, market_id, icp_amount, v.val, token_type))

\* variant of SellMarketUpdate: the division that gives the new opposite reserve rounds up
SellMarketUpdate_round_up(market, token_amount, icp_out, token_type) ==
    LET k == market.yes_reserve * market.no_reserve
        gross_icp_out ==
            IF token_type = "Yes"
            THEN ((k + market.yes_reserve - token_amount - 1)
                     \div (market.yes_reserve - token_amount)) - market.no_reserve
            ELSE ((k + market.no_reserve - token_amount - 1)
                     \div (market.no_reserve - token_amount)) - market.yes_reserve
        fee == (gross_icp_out * TRADE_FEE) \div 1000
        m1 == IF token_type = "Yes"
              THEN [market EXCEPT !.yes_reserve = @ - token_amount,
                                  !.no_reserve = @ + gross_icp_out]
              ELSE [market EXCEPT !.no_reserve = @ - token_amount,
                                  !.yes_reserve = @ + gross_icp_out]
    IN  [m1 EXCEPT !.icp_liquidity_pool = saturating_sub(@, icp_out),
                   !.total_fees_collected = @ + fee]

\* variant of SellMarketUpdate: the opposite reserve grows by the payout after
\* the fee, not by the gross output
SellMarketUpdate_net_reserve(market, token_amount, icp_out, token_type) ==
    LET k == market.yes_reserve * market.no_reserve
        gross_icp_out ==
            IF token_type = "Yes"
            THEN (k \div (market.yes_reserve - token_amount)) - market.no_reserve
            ELSE (k \div (market.no_reserve - token_amount)) - market.yes_reserve
        fee == (gross_icp_out * TRADE_FEE) \div 1000
        m1 == IF token_type = "Yes"
              THEN [market EXCEPT !.yes_reserve = @ - token_amount,
                                  !.no_reserve = @ + icp_out]
              ELSE [market EXCEPT !.no_reserve = @ - token_amount,
                                  !.yes_reserve = @ + icp_out]
    IN  [m1 EXCEPT !.icp_liquidity_pool = saturating_sub(@, icp_out),
                   !.total_fees_collected = @ + fee]

\* ---------------------------------------------------------------------------
\* execute_sell_trade (sell_yes_tokens / sell_no_tokens)
\* ---------------------------------------------------------------------------
\* lines 517-549: gross payout, reserves, pool and fee accounting of one market
SellMarketUpdate(market, token_amount, icp_out, token_type) ==
    LET k == market.yes_reserve * market.no_reserve
        gross_icp_out ==
            IF token_type = "Yes"
            THEN (k \div (market.yes_reserve - token_amount)) - market.no_reserve
            ELSE (k \div (market.no_reserve - token_amount)) - market.yes_reserve
        fee == (gross_icp_out * TRADE_FEE) \div 1000
        m1 == IF token_type = "Yes"
              THEN [market EXCEPT !.yes_reserve = @ - token_amount,
                                  !.no_reserve = @ + gross_icp_out]
              ELSE [market EXCEPT !.no_reserve = @ - token_amount,
                                  !.yes_reserve = @ + gross_icp_out]
    IN  [m1 EXCEPT !.icp_liquidity_pool = saturating_sub(@, icp_out),
                   !.total_fees_collected = @ + fee]

\* lines 557-566: debit of the caller's position, if it exists
SellPositionUpdate(positions, caller_principal, market_id, token_amount, token_type) ==
    LET key == <<caller_principal, market_id>> IN
    IF key \in DOMAIN positions
    THEN IF token_type = "Yes"
         THEN [positions EXCEPT ![key].yes_tokens = @ - token_amount]
         ELSE [positions EXCEPT ![key].no_tokens = @ - token_amount]
    ELSE positions

\* variant of SellValidate: the market is looked up before the position
SellValidate_market_first(L, caller_principal, market_id, token_amount, min_icp_out, token_type) ==
    IF token_amount = 0
    THEN Err("InvalidAmount")
    ELSE IF market_id \notin DOMAIN L.markets
    THEN Err("MarketNotFound")
    ELSE IF L.markets[market_id].status # "Open"
    THEN Err("MarketClosed")
    ELSE LET key == <<caller_principal, market_id>>
             user_tokens == IF key \in DOMAIN L.positions
                            THEN TokensOf(L.positions[key], token_type)
                            ELSE 0 IN
    IF user_tokens < token_amount
    THEN Err("InvalidAmount")
    ELSE LET q == calculate_icp_out(L.markets[market_id].yes_reserve,
                                    L.markets[market_id].no_reserve,
                                    token_amount, token_type = "Yes") IN
    IF q.err # "Ok"
    THEN q
    ELSE IF q.val < min_icp_out
    THEN Err("SlippageExceeded")
    ELSE q

\* lines 475-515: the checks of a sell, in the order of the code; Ok(icp_out)
SellValidate(L, caller_principal, market_id, token_amount, min_icp_out, token_type) ==
    IF token_amount = 0
    THEN Err("InvalidAmount")
    ELSE LET key == <<caller_principal, market_id>>
             user_tokens == IF key \in DOMAIN L.positions
                            THEN TokensOf(L.positions[key], token_type)
                            ELSE 0 IN
    IF user_tokens < token_amount
    THEN Err("InvalidAmount")
    ELSE IF market_id \notin DOMAIN L.markets
    THEN Err("MarketNotFound")
    ELSE IF L.markets[market_id].status # "Open"
    THEN Err("MarketClosed")
    ELSE LET q == calculate_icp_out(L.markets[market_id].yes_reserve,
                                    L.markets[market_id].no_reserve,
                                    token_amount, token_type = "Yes") IN
    IF q.err # "Ok"
    THEN q
    ELSE IF q.val < min_icp_out
    THEN Err("SlippageExceeded")
    ELSE q

\* lines 517-573: the mutations of a sell that passed its checks
SellApply(L, caller_principal, market_id, token_amount, icp_out, token_type) ==
    [L EXCEPT
       !.markets[market_id] = SellMarketUpdate(@, token_amount, icp_out, token_type),
       !.positions = SellPositionUpdate(@, caller_principal, market_id,
                                        token_amount, token_type),
       !.balances = InsertBalance(@, caller_principal,
                                  BalanceOf(L, caller_principal) + icp_out)]

\* lines 575-584: the receipt of a sell, read from the ledger after the mutations
\* variant of SellReceipt: the approximate fee is rounded up to the next unit
SellReceipt_fee_up(L1, market_id, token_amount, icp_out, token_type) ==
    LET new_price == get_token_price(L1, market_id, token_type)
        fee_paid == (icp_out * TRADE_FEE) \div (1000 - TRADE_FEE) + 1
    IN  IF new_price.err # "Ok"
        THEN TradeErr(new_price.err)
        ELSE TradeResult(icp_out, token_amount, fee_paid, new_price.val)

SellReceipt(L1, market_id, token_amount, icp_out, token_type) ==
    LET new_price == get_token_price(L1, market_id, token_type)
        fee_paid == (icp_out * TRADE_FEE) \div (1000 - TRADE_FEE)
    IN  IF new_price.err # "Ok"
        THEN TradeErr(new_price.err)
        ELSE TradeResult(icp_out, token_amount, fee_paid, new_price.val)

execute_sell_trade(L, caller_principal, market_id, token_amount, min_icp_out, token_type) ==
    LET v == SellValidate(L, caller_principal, market_id, token_amount,
                          min_icp_out, token_type) IN
    IF v.err # "Ok"
    THEN Out(L, TradeErr(v.err))
    ELSE LET L1 == SellApply(L, caller_principal, market_id, token_amount, v.val, token_type)
         IN  Out(L1, SellReceipt(L1, market_id, token_amount, v.val, token_type))

\* ---------------------------------------------------------------------------
\* resolve_market
\* ---------------------------------------------------------------------------
\* variant of resolve_market: with no global admin set, every caller passes
resolve_market_open_admin(L, caller_principal, market_id, outcome) ==
    LET is_global_admin == L.admin = NoPrincipal \/ L.admin = caller_principal
        is_market_admin == IF market_id \in DOMAIN L.markets
                           THEN L.markets[market_id].admin = caller_principal
                           ELSE FALSE
    IN  IF ~is_global_admin /\ ~is_market_admin
        THEN Out(L, Err("Unauthorized"))
        ELSE IF market_id \notin DOMAIN L.markets
        THEN Out(L, Err("MarketNotFound"))
        ELSE IF L.markets[market_id].status # "Open"
        THEN Out(L, Err("MarketClosed"))
        ELSE Out([L EXCEPT !.markets[market_id].status = "Resolved",
                           !.markets[market_id].winning_outcome = outcome],
                 Ok(market_id))

\* variant of resolve_market: the status of the market is not checked
resolve_market_no_status(L, caller_principal, market_id, outcome) ==
    LET is_global_admin == L.admin = caller_principal
        is_market_admin == IF market_id \in DOMAIN L.markets
                           THEN L.markets[market_id].admin = caller_principal
                           ELSE FALSE
    IN  IF ~is_global_admin /\ ~is_market_admin
        THEN Out(L, Err("Unauthorized"))
        ELSE IF market_id \notin DOMAIN L.markets
        THEN Out(L, Err("MarketNotFound"))
        ELSE Out([L EXCEPT !.markets[market_id].status = "Resolved",
                           !.markets[market_id].winning_outcome = outcome],
                 Ok(market_id))

\* variant of resolve_market: the collected fees are paid out to the market's admin
resolve_market_pays_fees(L, caller_principal, market_id, outcome) ==
    LET is_global_admin == L.admin = caller_principal
        is_market_admin == IF market_id \in DOMAIN L.markets
                           THEN L.markets[market_id].admin = caller_principal
                           ELSE FALSE
    IN  IF ~is_global_admin /\ ~is_market_admin
        THEN Out(L, Err("Unauthorized"))
        ELSE IF market_id \notin DOMAIN L.markets
        THEN Out(L, Err("MarketNotFound"))
        ELSE IF L.markets[market_id].status # "Open"
        THEN Out(L, Err("MarketClosed"))
        ELSE Out([L EXCEPT !.markets[market_id].status = "Resolved",
                           !.markets[market_id].winning_outcome = outcome,
                           !.balances = InsertBalance(@, L.markets[market_id].admin,
                                            BalanceOf(L, L.markets[market_id].admin)
                                              + L.markets[market_id].total_fees_collected)],
                 Ok(market_id))

\* variant of resolve_market: the market goes to Frozen, the first phase of a two-phase settlement
resolve_market_frozen(L, caller_principal, market_id, outcome) ==
    LET is_global_admin == L.admin = caller_principal
        is_market_admin == IF market_id \in DOMAIN L.markets
                           THEN L.markets[market_id].admin = caller_principal
                           ELSE FALSE
    IN  IF ~is_global_admin /\ ~is_market_admin
        THEN Out(L, Err("Unauthorized"))
        ELSE IF market_id \notin DOMAIN L.markets
        THEN Out(L, Err("MarketNotFound"))
        ELSE IF L.markets[market_id].status # "Open"
        THEN Out(L, Err("MarketClosed"))
        ELSE Out([L EXCEPT !.markets[market_id].status = "Frozen",
                           !.markets[market_id].winning_outcome = outcome],
                 Ok(market_id))

resolve_market(L, caller_principal, market_id, outcome) ==
    LET is_global_admin == L.admin = caller_principal
        is_market_admin == IF market_id \in DOMAIN L.markets
                           THEN L.markets[market_id].admin = caller_principal
                           ELSE FALSE
    IN  IF ~is_global_admin /\ ~is_market_admin
        THEN Out(L, Err("Unauthorized"))
        ELSE IF market_id \notin DOMAIN L.markets
        THEN Out(L, Err("MarketNotFound"))
        ELSE IF L.markets[market_id].status # "Open"
        THEN Out(L, Err("MarketClosed"))
        ELSE Out([L EXCEPT !.markets[market_id].status = "Resolved",
                           !.markets[market_id].winning_outcome = outcome],
                 Ok(market_id))

\* ---------------------------------------------------------------------------
\* claim_reward
\* ---------------------------------------------------------------------------
RECURSIVE SumWinning(_, _, _)
\* positions_map.values().filter(market_id).map(winning side).sum()
SumWinning(keys, positions, winning_token_type) ==
    IF keys = {} THEN 0
    ELSE LET key == CHOOSE x \in keys : TRUE IN
         TokensOf(positions[key], winning_token_type)
           + SumWinning(keys \ {key}, positions, winning_token_type)

\* variant of TotalWinningTokens: the tokens of both sides are counted
TotalWinningTokens_both_sides(L, market_id, winning_token_type) ==
    SumWinning({key \in DOMAIN L.positions : L.positions[key].market_id = market_id},
               L.positions, "Yes")
      + SumWinning({key \in DOMAIN L.positions : L.positions[key].market_id = market_id},
                   L.positions, "No")

\* variant of TotalWinningTokens: the filter on the market is inverted
TotalWinningTokens_other_markets(L, market_id, winning_token_type) ==
    SumWinning({key \in DOMAIN L.positions : L.positions[key].market_id # market_id},
               L.positions, winning_token_type)

\* variant of TotalWinningTokens: the match arms are swapped, the losing side
\* is summed
TotalWinningTokens_losing_side(L, market_id, winning_token_type) ==
    SumWinning({key \in DOMAIN L.positions : L.positions[key].market_id = market_id},
               L.positions, IF winning_token_type = "Yes" THEN "No" ELSE "Yes")

TotalWinningTokens(L, market_id, winning_token_type) ==
    SumWinning({key \in DOMAIN L.positions : L.positions[key].market_id = market_id},
               L.positions, winning_token_type)

\* variant of ClaimPositionUpdate: every position of the caller is flagged and burned, whatever its market
ClaimPositionUpdate_any_market(positions, key, winning_token_type) ==
    [q \in DOMAIN positions |->
        IF q[1] = key[1]
        THEN IF winning_token_type = "Yes"
             THEN [positions[q] EXCEPT !.claimed_reward = TRUE, !.yes_tokens = 0]
             ELSE [positions[q] EXCEPT !.claimed_reward = TRUE, !.no_tokens = 0]
        ELSE positions[q]]

\* variant of ClaimPositionUpdate: the tokens are burned, the flag is not set
ClaimPositionUpdate_no_flag(positions, key, winning_token_type) ==
    IF key \in DOMAIN positions
    THEN IF winning_token_type = "Yes"
         THEN [positions EXCEPT ![key].yes_tokens = 0]
         ELSE [positions EXCEPT ![key].no_tokens = 0]
    ELSE positions

\* variant of ClaimPositionUpdate: the flag is set, the tokens are kept
ClaimPositionUpdate_no_burn(positions, key, winning_token_type) ==
    IF key \in DOMAIN positions
    THEN [positions EXCEPT ![key].claimed_reward = TRUE]
    ELSE positions

\* lines 709-720: mark the position as claimed and burn its winning tokens
ClaimPositionUpdate(positions, key, winning_token_type) ==
    IF key \in DOMAIN positions
    THEN IF winning_token_type = "Yes"
         THEN [positions EXCEPT ![key].claimed_reward = TRUE, ![key].yes_tokens = 0]
         ELSE [positions EXCEPT ![key].claimed_reward = TRUE, ![key].no_tokens = 0]
    ELSE positions

\* variant of ClaimValidate: the winning tokens are looked at before the flag
ClaimValidate_tokens_first(L, caller_principal, market_id) ==
    IF market_id \notin DOMAIN L.markets
    THEN Err("MarketNotFound")
    ELSE LET market == L.markets[market_id] IN
    IF market.status # "Resolved"
    THEN Err("MarketClosed")
    ELSE IF market.winning_outcome = "None"
    THEN Err("MarketNotFound")
    ELSE LET key == <<caller_principal, market_id>>
             has_position == key \in DOMAIN L.positions
             user_winning_tokens ==
                 IF has_position
                 THEN TokensOf(L.positions[key], market.winning_outcome)
                 ELSE 0 IN
    IF user_winning_tokens = 0
    THEN Err("NoWinningTokens")
    ELSE IF has_position /\ L.positions[key].claimed_reward
    THEN Err("AlreadyClaimed")
    ELSE Ok(user_winning_tokens)

\* lines 643-685: the checks of claim_reward, in the order of the code;
\* yields the caller's winning tokens
ClaimValidate(L, caller_principal, market_id) ==
    IF market_id \notin DOMAIN L.markets
    THEN Err("MarketNotFound")
    ELSE LET market == L.markets[market_id] IN
    IF market.status # "Resolved"
    THEN Err("MarketClosed")
    ELSE IF market.winning_outcome = "None"
    THEN Err("MarketNotFound")
    ELSE LET winning_token_type == market.winning_outcome
             key == <<caller_principal, market_id>>
             has_position == key \in DOMAIN L.positions
             already_claimed == has_position /\ L.positions[key].claimed_reward
             user_winning_tokens ==
                 IF has_position /\ ~L.positions[key].claimed_reward
                 THEN TokensOf(L.positions[key], winning_token_type)
                 ELSE 0 IN
    IF already_claimed
    THEN Err("AlreadyClaimed")
    ELSE IF user_winning_tokens = 0
    THEN Err("NoWinningTokens")
    ELSE Ok(user_winning_tokens)

\* variant of ClaimMarketUpdate: the pool is not debited
ClaimMarketUpdate_keep_pool(market, reward_amount) ==
    market

\* variant of ClaimMarketUpdate: the pool is debited by one unit more than
\* the reward (the debit is rounded up)
ClaimMarketUpdate_debit_extra(market, reward_amount) ==
    [market EXCEPT !.icp_liquidity_pool = saturating_sub(@, reward_amount + 1)]

\* lines 742-748: the reward leaves the market's pool
ClaimMarketUpdate(market, reward_amount) ==
    [market EXCEPT !.icp_liquidity_pool = saturating_sub(@, reward_amount)]

\* variant of ClaimLogUpdate: the new entry goes to the front of the log
ClaimLogUpdate_push_front(claims, claim) == <<claim>> \o claims

\* lines 738-740: the claim is pushed onto the end of REWARD_CLAIMS
ClaimLogUpdate(claims, claim) == Append(claims, claim)

claim_reward(L, caller_principal, market_id) ==
    LET checked == ClaimValidate(L, caller_principal, market_id) IN
    IF checked.err # "Ok"
    THEN Out(L, checked)
    ELSE LET market == L.markets[market_id]
             winning_token_type == market.winning_outcome
             key == <<caller_principal, market_id>>
             user_winning_tokens == checked.val
             total_winning_tokens ==
                 TotalWinningTokens(L, market_id, winning_token_type) IN
    IF total_winning_tokens = 0
    THEN Out(L, Err("InsufficientLiquidity"))
    ELSE LET reward_amount ==
                 (user_winning_tokens * market.icp_liquidity_pool)
                     \div total_winning_tokens
             burned == ClaimPositionUpdate(L.positions, key, winning_token_type)
             claim == RewardClaim(caller_principal, market_id,
                                  user_winning_tokens, reward_amount)
         IN  Out([L EXCEPT
                    !.positions = burned,
                    !.balances = InsertBalance(@, caller_principal,
                                     BalanceOf(L, caller_principal) + reward_amount),
                    !.claims = ClaimLogUpdate(@, claim),
                    !.markets[market_id] = ClaimMarketUpdate(@, reward_amount)],
                 Ok(claim))

\* ---------------------------------------------------------------------------
\* deposit_icp, set_admin, reset_admin
\* ---------------------------------------------------------------------------
deposit_icp(L, caller_principal, amount) ==
    IF amount < MIN_DEPOSIT
    THEN Out(L, Err("InvalidAmount"))
    ELSE Out([L EXCEPT !.balances =
                 InsertBalance(@, caller_principal,
                               BalanceOf(L, caller_principal) + amount)],
             Ok(amount))

\* variant of set_admin: an admin in office cannot be replaced, only a vacant seat is taken
set_admin_if_vacant(L, admin_principal) ==
    IF L.admin # NoPrincipal
    THEN Out(L, Err("Unauthorized"))
    ELSE Out([L EXCEPT !.admin = admin_principal], Ok(0))

set_admin(L, admin_principal) == Out([L EXCEPT !.admin = admin_principal], Ok(0))

reset_admin(L) == Out([L EXCEPT !.admin = NoPrincipal], Ok(0))

\* ---------------------------------------------------------------------------
\* get_buy_quote / get_sell_quote (queries: the ledger is only read)
\* ---------------------------------------------------------------------------
get_buy_quote(L, market_id, icp_amount, token_type) ==
    IF market_id \notin DOMAIN L.markets
    THEN TradeErr("MarketNotFound")
    ELSE LET market == L.markets[market_id] IN
    IF market.status # "Open"
    THEN TradeErr("MarketClosed")
    ELSE LET q == calculate_tokens_out(market.yes_reserve, market.no_reserve,
                                       icp_amount, token_type = "Yes") IN
    IF q.err # "Ok"
    THEN TradeErr(q.err)
    ELSE LET tokens_out == q.val
             fee_paid == (icp_amount * TRADE_FEE) \div 1000
             drained == (icp_amount * (1000 - TRADE_FEE)) \div 1000
             new_yes_reserve == IF token_type = "Yes"
                                THEN market.yes_reserve + tokens_out
                                ELSE market.yes_reserve - drained
             new_no_reserve == IF token_type = "Yes"
                               THEN market.no_reserve - drained
                               ELSE market.no_reserve + tokens_out
             total_new_reserves == new_yes_reserve + new_no_reserve
             new_price == IF total_new_reserves > 0
                          THEN IF token_type = "Yes"
                               THEN [num |-> new_no_reserve, den |-> total_new_reserves]
                               ELSE [num |-> new_yes_reserve, den |-> total_new_reserves]
                          ELSE [num |-> 1, den |-> 2]
         IN  TradeResult(tokens_out, icp_amount, fee_paid, new_price)

get_sell_quote(L, market_id, token_amount, token_type) ==
    IF market_id \notin DOMAIN L.markets
    THEN TradeErr("MarketNotFound")
    ELSE LET market == L.markets[market_id] IN
    IF market.status # "Open"
    THEN TradeErr("MarketClosed")
    ELSE LET q == calculate_icp_out(market.yes_reserve, market.no_reserve,
                                    token_amount, token_type = "Yes") IN
    IF q.err # "Ok"
    THEN TradeErr(q.err)
    ELSE LET icp_out == q.val
             fee_paid == (icp_out * TRADE_FEE) \div (1000 - TRADE_FEE)
             k == market.yes_reserve * market.no_reserve
             new_yes_reserve == IF token_type = "Yes"
                                THEN market.yes_reserve - token_amount
                                ELSE k \div (market.no_reserve - token_amount)
             new_no_reserve == IF token_type = "Yes"
                               THEN k \div (market.yes_reserve - token_amount)
                               ELSE market.no_reserve - token_amount
             total_new_reserves == new_yes_reserve + new_no_reserve
             new_price == IF total_new_reserves > 0
                          THEN IF token_type = "Yes"
                               THEN [num |-> new_no_reserve, den |-> total_new_reserves]
                               ELSE [num |-> new_yes_reserve, den |-> total_new_reserves]
                          ELSE [num |-> 1, den |-> 2]
         IN  TradeResult(icp_out, token_amount, fee_paid, new_price)

\* ---------------------------------------------------------------------------
\* State
\* ---------------------------------------------------------------------------
VARIABLES
    MARKETS,          \* thread_local MARKETS
    USER_POSITIONS,   \* thread_local USER_POSITIONS
    REWARD_CLAIMS,    \* thread_local REWARD_CLAIMS
    NEXT_MARKET_ID,   \* thread_local NEXT_MARKET_ID
    ADMIN,            \* thread_local ADMIN
    USER_BALANCES,    \* thread_local USER_BALANCES
    pre,              \* history: the ledger before the last call
    call,             \* history: the last call (operation, caller, arguments)
    ret,              \* history: the value the last call returned
    ncalls,           \* number of calls that changed the state so far
    deposited,        \* ghost: sum of all successful deposits
    at_resolution,    \* ghost: per resolved market, the ledger its resolution left
    quote             \* the last quote a client took and has not used yet

vars == <<MARKETS, USER_POSITIONS, REWARD_CLAIMS, NEXT_MARKET_ID, ADMIN,
          USER_BALANCES, pre, call, ret, ncalls, deposited, at_resolution,
          quote>>

Ledger ==
    [markets |-> MARKETS, positions |-> USER_POSITIONS, claims |-> REWARD_CLAIMS,
     next_id |-> NEXT_MARKET_ID, admin |-> ADMIN, balances |-> USER_BALANCES]

Call(op, caller_principal, market_id, amount, min_out, token_type) ==
    [op |-> op, caller |-> caller_principal, market_id |-> market_id,
     amount |-> amount, min_out |-> min_out, token_type |-> token_type,
     principal |-> NoPrincipal, min_from |-> "none"]

\* set_admin / reset_admin: the caller is not looked at by the code
AdminCall(op, admin_principal) ==
    [op |-> op, caller |-> NoPrincipal, market_id |-> 0, amount |-> 0,
     min_out |-> 0, token_type |-> "None", principal |-> admin_principal,
     min_from |-> "none"]

\* a quote a client holds: what was asked, the output quoted, and the reserves
\* of the market at the time of the quote
Quote(kind, u, m, amount, tt, out, market) ==
    [kind |-> kind, user |-> u, market_id |-> m, amount |-> amount,
     token_type |-> tt, out |-> out,
     yes_reserve |-> market.yes_reserve, no_reserve |-> market.no_reserve]

NoQuote ==
    [kind |-> "none", user |-> NoPrincipal, market_id |-> 0, amount |-> 0,
     token_type |-> "None", out |-> 0, yes_reserve |-> 0, no_reserve |-> 0]

\* init(): the deployer becomes the global admin; every store is empty
Init ==
    /\ MARKETS = <<>>
    /\ USER_POSITIONS = <<>>
    /\ REWARD_CLAIMS = <<>>
    /\ NEXT_MARKET_ID = 1
    /\ ADMIN = Deployer
    /\ USER_BALANCES = <<>>
    /\ pre = [markets |-> <<>>, positions |-> <<>>, claims |-> <<>>,
              next_id |-> 1, admin |-> Deployer, balances |-> <<>>]
    /\ call = Call("init", Deployer, 0, 0, 0, "None")
    /\ ret = Ok(0)
    /\ ncalls = 0
    /\ deposited = 0
    /\ at_resolution = <<>>
    /\ quote = NoQuote

\* A state reached by a call that returned an error is explored no further:
\* the calls that can follow it are explored from the state the failed call
\* started in (the error states are the observations of the failed calls).
Running == ret.err = "Ok"

\* One call run to completion: the stores take the handler's ledger, the
\* history variables record the call.  A call that returns Ok counts against
\* MaxCalls; a call that returns an error is always possible.  A successful
\* resolve_market is remembered with the ledger it left.
Commit(out, c) ==
    /\ out.res.err = "Ok" => ncalls < MaxCalls
    /\ MARKETS' = out.L.markets
    /\ USER_POSITIONS' = out.L.positions
    /\ REWARD_CLAIMS' = out.L.claims
    /\ NEXT_MARKET_ID' = out.L.next_id
    /\ ADMIN' = out.L.admin
    /\ USER_BALANCES' = out.L.balances
    /\ pre' = Ledger
    /\ call' = c
    /\ ret' = out.res
    /\ ncalls' = IF out.res.err = "Ok" THEN ncalls + 1 ELSE ncalls
    /\ at_resolution' = IF c.op = "resolve_market" /\ out.res.err = "Ok"
                        THEN (c.market_id :> out.L) @@ at_resolution
                        ELSE at_resolution

\* the pending quote is the caller's own quote for exactly this trade
QuoteMatches(kind, u, m, amount, tt) ==
    /\ quote.kind = kind /\ quote.user = u /\ quote.market_id = m
    /\ quote.amount = amount /\ quote.token_type = tt

\* the minimum a client passes: none, or the output of its own pending quote
MinOuts(kind, u, m, amount, tt) ==
    {0} \cup (IF QuoteMatches(kind, u, m, amount, tt) THEN {quote.out} ELSE {})

\* a trade call; min_from tells whether the minimum is a quoted output and
\* whether the reserves are still those of the quote ("fresh") or not ("stale")
TradeCall(kind, u, m, amount, min_out, tt) ==
    [Call(kind, u, m, amount, min_out, tt) EXCEPT
       !.min_from =
           IF QuoteMatches(kind, u, m, amount, tt) /\ min_out = quote.out
                 /\ m \in DOMAIN MARKETS
           THEN IF /\ MARKETS[m].yes_reserve = quote.yes_reserve
                   /\ MARKETS[m].no_reserve = quote.no_reserve
                THEN "fresh" ELSE "stale"
           ELSE "none"]

\* the token amounts a client offers for sale: nothing, one, all it holds,
\* or the amount of its pending sell quote
SellAmounts(u, m, tt) ==
    {0, 1} \cup (IF <<u, m>> \in DOMAIN USER_POSITIONS
                 THEN {TokensOf(USER_POSITIONS[<<u, m>>], tt)} ELSE {})
           \cup (IF QuoteMatches("sell", u, m, quote.amount, tt)
                 THEN {quote.amount} ELSE {})

\* a trade that passes the quoted output as its minimum uses the quote up
QuoteAfterTrade(c) == IF c.min_from = "none" THEN quote ELSE NoQuote

DepositBy(u, amount) ==
    \E out \in {deposit_icp(Ledger, u, amount)} :
        /\ Commit(out, Call("deposit_icp", u, 0, amount, 0, "None"))
        /\ deposited' = IF out.res.err = "Ok" THEN deposited + amount ELSE deposited
        /\ UNCHANGED quote

CreateMarketBy(u, amount) ==
    \E out \in {create_market(Ledger, u, amount)} :
        /\ out.res.err = "Ok" => NEXT_MARKET_ID <= MaxMarkets
        /\ Commit(out, Call("create_market", u, 0, amount, 0, "None"))
        /\ UNCHANGED <<deposited, quote>>

BuyBy(u, m, amount, tt) ==
    \E min_tokens_out \in MinOuts("buy", u, m, amount, tt) :
      \E out \in {execute_buy_trade(Ledger, u, m, amount, min_tokens_out, tt)} :
        /\ Commit(out, TradeCall("buy", u, m, amount, min_tokens_out, tt))
        /\ quote' = QuoteAfterTrade(TradeCall("buy", u, m, amount, min_tokens_out, tt))
        /\ UNCHANGED deposited

SellBy(u, m, tt) ==
    \E token_amount \in SellAmounts(u, m, tt) :
      \E min_icp_out \in MinOuts("sell", u, m, token_amount, tt) :
        \E out \in {execute_sell_trade(Ledger, u, m, token_amount, min_icp_out, tt)} :
          /\ Commit(out, TradeCall("sell", u, m, token_amount, min_icp_out, tt))
          /\ quote' = QuoteAfterTrade(TradeCall("sell", u, m, token_amount, min_icp_out, tt))
          /\ UNCHANGED deposited

ResolveBy(u, m, outcome) ==
    \E out \in {resolve_market(Ledger, u, m, outcome)} :
        /\ Commit(out, Call("resolve_market", u, m, 0, 0, outcome))
        /\ UNCHANGED <<deposited, quote>>

ClaimBy(u, m) ==
    \E out \in {claim_reward(Ledger, u, m)} :
        /\ Commit(out, Call("claim_reward", u, m, 0, 0, "None"))
        /\ UNCHANGED <<deposited, quote>>

\* set_admin(p), for a principal p that is not the admin already
SetAdminTo(p) ==
    \E out \in {set_admin(Ledger, p)} :
        /\ ADMIN # p
        /\ Commit(out, AdminCall("set_admin", p))
        /\ UNCHANGED <<deposited, quote>>

\* get_buy_quote: a query; the client keeps the quoted output
BuyQuoteBy(u, m, amount, tt) ==
    \E res \in {get_buy_quote(Ledger, m, amount, tt)} :
        /\ res.err = "Ok"
        /\ Commit(Out(Ledger, res), Call("get_buy_quote", u, m, amount, 0, tt))
        /\ quote' = Quote("buy", u, m, amount, tt, res.val, MARKETS[m])
        /\ UNCHANGED deposited

\* get_sell_quote: a query by a holder; the client keeps the quoted payout
SellQuoteBy(u, m, tt) ==
    \E token_amount \in SellAmounts(u, m, tt) \ {0} :
      \E res \in {get_sell_quote(Ledger, m, token_amount, tt)} :
        /\ res.err = "Ok"
        /\ <<u, m>> \in DOMAIN USER_POSITIONS
        /\ TokensOf(USER_POSITIONS[<<u, m>>], tt) >= token_amount
        /\ Commit(Out(Ledger, res), Call("get_sell_quote", u, m, token_amount, 0, tt))
        /\ quote' = Quote("sell", u, m, token_amount, tt, res.val, MARKETS[m])
        /\ UNCHANGED deposited

Deposit == Running /\ \E u \in Users, amount \in DepositAmounts : DepositBy(u, amount)

CreateMarket == Running /\ \E u \in Users, amount \in CreateAmounts : CreateMarketBy(u, amount)

Buy ==
    Running /\ \E u \in Users, m \in MarketIds, amount \in BuyAmounts, tt \in TokenTypes :
                  BuyBy(u, m, amount, tt)

Sell == Running /\ \E u \in Users, m \in MarketIds, tt \in TokenTypes : SellBy(u, m, tt)

Resolve ==
    Running /\ \E u \in Users, m \in MarketIds, outcome \in TokenTypes :
                  ResolveBy(u, m, outcome)

Claim == Running /\ \E u \in Users, m \in MarketIds : ClaimBy(u, m)

SetAdmin == Running /\ \E p \in Users : SetAdminTo(p)

ResetAdmin ==
    /\ Running
    /\ ADMIN # NoPrincipal
    /\ \E out \in {reset_admin(Ledger)} :
          Commit(out, AdminCall("reset_admin", NoPrincipal))
    /\ UNCHANGED <<deposited, quote>>

BuyQuote ==
    Running /\ \E u \in Users, m \in MarketIds, amount \in QuoteAmounts,
                  tt \in TokenTypes : BuyQuoteBy(u, m, amount, tt)

SellQuote ==
    Running /\ \E u \in Users, m \in MarketIds, tt \in TokenTypes : SellQuoteBy(u, m, tt)

Next ==
    \/ Deposit
    \/ CreateMarket
    \/ Buy
    \/ Sell
    \/ Resolve
    \/ Claim
    \/ SetAdmin
    \/ ResetAdmin
    \/ BuyQuote
    \/ SellQuote

Spec == Init /\ [][Next]_vars

\* ---------------------------------------------------------------------------
\* The pricing math on its own.  calculate_tokens_out and calculate_icp_out
\* are pure functions of two reserves, an amount and a side; they accept any
\* u64 reserves, also pairs no market of the canister ever holds.  MathSpec
\* draws the arguments from bounded sets and applies the function once: `call`
\* holds the arguments and `ret` the result, the stores stay empty.
\* ---------------------------------------------------------------------------
MaxReserve == 8
MaxAmount == 10

\* small reserves and amounts, and the values the unit tests use
MathReserves == (0..MaxReserve) \cup {100, 1000}
MathAmounts == (0..MaxAmount) \cup {50, 100, 150}
MathOps == {"calculate_tokens_out", "calculate_icp_out"}

MathCall(op, yes_reserve, no_reserve, amount, token_type) ==
    [op |-> op, yes_reserve |-> yes_reserve, no_reserve |-> no_reserve,
     amount |-> amount, token_type |-> token_type]

\* the function has not been applied yet
Pending == [err |-> "Pending", val |-> 0]

MathInit ==
    /\ MARKETS = <<>>
    /\ USER_POSITIONS = <<>>
    /\ REWARD_CLAIMS = <<>>
    /\ NEXT_MARKET_ID = 1
    /\ ADMIN = Deployer
    /\ USER_BALANCES = <<>>
    /\ pre = [markets |-> <<>>, positions |-> <<>>, claims |-> <<>>,
              next_id |-> 1, admin |-> Deployer, balances |-> <<>>]
    /\ call \in {MathCall(op, y, n, a, tt) :
                    op \in MathOps, y \in MathReserves, n \in MathReserves,
                    a \in MathAmounts, tt \in TokenTypes}
    /\ ret = Pending
    /\ ncalls = 0
    /\ deposited = 0
    /\ at_resolution = <<>>
    /\ quote = NoQuote

TokensOutApply ==
    /\ ret = Pending
    /\ call.op = "calculate_tokens_out"
    /\ ret' = calculate_tokens_out(call.yes_reserve, call.no_reserve,
                                   call.amount, call.token_type = "Yes")
    /\ UNCHANGED <<MARKETS, USER_POSITIONS, REWARD_CLAIMS, NEXT_MARKET_ID,
                   ADMIN, USER_BALANCES, pre, call, ncalls, deposited,
                   at_resolution, quote>>

IcpOutApply ==
    /\ ret = Pending
    /\ call.op = "calculate_icp_out"
    /\ ret' = calculate_icp_out(call.yes_reserve, call.no_reserve,
                                call.amount, call.token_type = "Yes")
    /\ UNCHANGED <<MARKETS, USER_POSITIONS, REWARD_CLAIMS, NEXT_MARKET_ID,
                   ADMIN, USER_BALANCES, pre, call, ncalls, deposited,
                   at_resolution, quote>>

MathNext ==
    \/ TokensOutApply
    \/ IcpOutApply

MathSpec == MathInit /\ [][MathNext]_vars

\* ---------------------------------------------------------------------------
\* Settlement with several holders.  A market with two funded traders takes
\* three calls to set up, which leaves Spec too few calls for both to trade
\* and claim.  SettleSpec starts in the ledger those three calls produce
\* (u1 and u2 each deposit 2000, u1 creates market 1 with 1000) and runs the
\* buys, resolutions and claims from there.
\* ---------------------------------------------------------------------------
\* 1000 is the smallest payment on which the fee 3/1000 leaves no remainder
SettleAmounts == {100, 1000}

EmptyLedger ==
    [markets |-> <<>>, positions |-> <<>>, claims |-> <<>>,
     next_id |-> 1, admin |-> Deployer, balances |-> <<>>]

\* the ledger after deposit_icp(2000) by u1 and by u2
FundedLedger ==
    deposit_icp(deposit_icp(EmptyLedger, "u1", 2000).L, "u2", 2000).L

SettleInit ==
    \E out \in {create_market(FundedLedger, "u1", 1000)} :
        /\ MARKETS = out.L.markets
        /\ USER_POSITIONS = out.L.positions
        /\ REWARD_CLAIMS = out.L.claims
        /\ NEXT_MARKET_ID = out.L.next_id
        /\ ADMIN = out.L.admin
        /\ USER_BALANCES = out.L.balances
        /\ pre = FundedLedger
        /\ call = Call("create_market", "u1", 0, 1000, 0, "None")
        /\ ret = out.res
        /\ ncalls = 0
        /\ deposited = 4000
        /\ at_resolution = <<>>
        /\ quote = NoQuote

SettleBuy ==
    Running /\ \E u \in Users, m \in MarketIds, amount \in SettleAmounts,
                  tt \in TokenTypes : BuyBy(u, m, amount, tt)

SettleNext ==
    \/ SettleBuy
    \/ Resolve
    \/ Claim

SettleSpec == SettleInit /\ [][SettleNext]_vars

\* ---------------------------------------------------------------------------
\* Market creation.  Spec stops at MaxMarkets markets; CreateSpec starts with
\* both users funded (u1 and u2 each deposited 2000) and lets them create up
\* to MaxCreated markets, resolve them and deposit more.
\* ---------------------------------------------------------------------------
MaxCreated == 3

CreatedIds == 1..MaxCreated

CreateInit ==
    \E first \in {deposit_icp(EmptyLedger, "u1", 2000)} :
    \E out \in {deposit_icp(first.L, "u2", 2000)} :
        /\ MARKETS = out.L.markets
        /\ USER_POSITIONS = out.L.positions
        /\ REWARD_CLAIMS = out.L.claims
        /\ NEXT_MARKET_ID = out.L.next_id
        /\ ADMIN = out.L.admin
        /\ USER_BALANCES = out.L.balances
        /\ pre = first.L
        /\ call = Call("deposit_icp", "u2", 0, 2000, 0, "None")
        /\ ret = out.res
        /\ ncalls = 0
        /\ deposited = 4000
        /\ at_resolution = <<>>
        /\ quote = NoQuote

CreateMore ==
    /\ Running
    /\ \E u \in Users, amount \in CreateAmounts :
          \E out \in {create_market(Ledger, u, amount)} :
              /\ out.res.err = "Ok" => NEXT_MARKET_ID <= MaxCreated
              /\ Commit(out, Call("create_market", u, 0, amount, 0, "None"))
              /\ UNCHANGED <<deposited, quote>>

ResolveCreated ==
    Running /\ \E u \in Users, m \in CreatedIds, outcome \in TokenTypes :
                  ResolveBy(u, m, outcome)

CreateNext ==
    \/ Deposit
    \/ CreateMore
    \/ ResolveCreated

CreateSpec == CreateInit /\ [][CreateNext]_vars

\* ---------------------------------------------------------------------------
\* Positions over their whole life.  PositionSpec starts where SettleSpec
\* starts (both users funded, market 1 created by u1) and adds the sells, so
\* that a position is bought into, sold from, and burned by a claim.  The
\* partial sells are those of Spec.
\* ---------------------------------------------------------------------------
PositionAmounts == {100}

PositionBuy ==
    Running /\ \E u \in Users, m \in MarketIds, amount \in PositionAmounts,
                  tt \in TokenTypes : BuyBy(u, m, amount, tt)

\* a holder sells all it holds of one side, at any price
PositionSell ==
    /\ Running
    /\ \E u \in Users, m \in MarketIds, tt \in TokenTypes :
        \E token_amount \in (IF <<u, m>> \in DOMAIN USER_POSITIONS
                              THEN {TokensOf(USER_POSITIONS[<<u, m>>], tt)} ELSE {1}) :
        \E out \in {execute_sell_trade(Ledger, u, m, token_amount, 0, tt)} :
            /\ Commit(out, TradeCall("sell", u, m, token_amount, 0, tt))
            /\ UNCHANGED <<deposited, quote>>

PositionNext ==
    \/ PositionBuy
    \/ PositionSell
    \/ Resolve
    \/ Claim

PositionSpec == SettleInit /\ [][PositionNext]_vars

\* ---------------------------------------------------------------------------
\* Two markets side by side.  FrameSpec starts with both users funded and a
\* market each (u1 deposits 2000, u2 deposits 2000, u1 creates market 1 and
\* u2 market 2, with 1000 each) and runs up to FrameCalls buys, sells,
\* resolutions and claims on the two markets.
\* ---------------------------------------------------------------------------
FrameCalls == 4

FrameIds == {1, 2}

FrameAmounts == {100}

\* the ledger after u1 and u2 have each created a market with 1000
TwoMarkets ==
    create_market(create_market(FundedLedger, "u1", 1000).L, "u2", 1000)

FrameInit ==
    /\ MARKETS = TwoMarkets.L.markets
    /\ USER_POSITIONS = TwoMarkets.L.positions
    /\ REWARD_CLAIMS = TwoMarkets.L.claims
    /\ NEXT_MARKET_ID = TwoMarkets.L.next_id
    /\ ADMIN = TwoMarkets.L.admin
    /\ USER_BALANCES = TwoMarkets.L.balances
    /\ pre = create_market(FundedLedger, "u1", 1000).L
    /\ call = Call("create_market", "u2", 0, 1000, 0, "None")
    /\ ret = TwoMarkets.res
    /\ ncalls = 0
    /\ deposited = 4000
    /\ at_resolution = <<>>
    /\ quote = NoQuote

\* the last call failed, or fewer than FrameCalls calls have succeeded
FrameRunning == Running /\ ncalls < FrameCalls

FrameBuy ==
    FrameRunning /\ \E u \in Users, m \in FrameIds, amount \in FrameAmounts,
                       tt \in TokenTypes : BuyBy(u, m, amount, tt)

\* a holder sells all it holds of one side, at any price
FrameSell ==
    /\ FrameRunning
    /\ \E u \in Users, m \in FrameIds, tt \in TokenTypes :
        \E token_amount \in (IF <<u, m>> \in DOMAIN USER_POSITIONS
                              THEN {TokensOf(USER_POSITIONS[<<u, m>>], tt)} ELSE {1}) :
        \E out \in {execute_sell_trade(Ledger, u, m, token_amount, 0, tt)} :
            /\ Commit(out, TradeCall("sell", u, m, token_amount, 0, tt))
            /\ UNCHANGED <<deposited, quote>>

FrameResolve ==
    FrameRunning /\ \E u \in Users, m \in FrameIds, outcome \in TokenTypes :
                       ResolveBy(u, m, outcome)

FrameClaim == FrameRunning /\ \E u \in Users, m \in FrameIds : ClaimBy(u, m)

FrameNext ==
    \/ FrameBuy
    \/ FrameSell
    \/ FrameResolve
    \/ FrameClaim

FrameSpec == FrameInit /\ [][FrameNext]_vars

\* ---------------------------------------------------------------------------
\* Properties
\* ---------------------------------------------------------------------------
RECURSIVE SumBalances(_, _)
SumBalances(balances, who) ==
    IF who = {} THEN 0
    ELSE LET p == CHOOSE x \in who : TRUE IN
         balances[p] + SumBalances(balances, who \ {p})

RECURSIVE SumPools(_, _)
SumPools(markets, ids) ==
    IF ids = {} THEN 0
    ELSE LET i == CHOOSE x \in ids : TRUE IN
         markets[i].icp_liquidity_pool + SumPools(markets, ids \ {i})

\* all user balances plus all markets' pools
TotalSupply(L) ==
    SumBalances(L.balances, DOMAIN L.balances) + SumPools(L.markets, DOMAIN L.markets)

\* tokens of one side a user holds in a market (0 without a position)
TokensHeld(L, u, m, tt) ==
    IF <<u, m>> \in DOMAIN L.positions THEN TokensOf(L.positions[<<u, m>>], tt) ELSE 0

Failed == ret.err # "Ok"
Succeeded == ret.err = "Ok"

\* the last call named a market that existed when the call started
OnMarket == call.market_id \in DOMAIN pre.markets

\* the last call was a buy that got as far as the quote (lines 372-391 passed)
BuyReachedQuote ==
    /\ call.op = "buy"
    /\ call.amount > 0
    /\ BalanceOf(pre, call.caller) >= call.amount
    /\ OnMarket
    /\ pre.markets[call.market_id].status = "Open"

\* the last call was a sell that got as far as the quote (lines 475-503 passed)
SellReachedQuote ==
    /\ call.op = "sell"
    /\ call.amount > 0
    /\ TokensHeld(pre, call.caller, call.market_id, call.token_type) >= call.amount
    /\ OnMarket
    /\ pre.markets[call.market_id].status = "Open"

\* the output the pricing math computes for the last call, from the reserves
\* the call found
ComputedOut ==
    IF call.op = "buy"
    THEN calculate_tokens_out(pre.markets[call.market_id].yes_reserve,
                              pre.markets[call.market_id].no_reserve,
                              call.amount, call.token_type = "Yes")
    ELSE calculate_icp_out(pre.markets[call.market_id].yes_reserve,
                           pre.markets[call.market_id].no_reserve,
                           call.amount, call.token_type = "Yes")

\* C1: a create_market, buy, sell, resolve_market, claim_reward or deposit_icp
\* that returns an error leaves the whole ledger (markets, positions,
\* balances, claim log, next market id) exactly as it was before the call.
C1_ErrorLeavesLedger ==
    (/\ call.op \in {"create_market", "buy", "sell", "resolve_market",
                     "claim_reward", "deposit_icp"}
     /\ Failed)
    => Ledger = pre

\* a buy failed in the pricing math, after every earlier check had passed
C1_Witness ==
    /\ BuyReachedQuote
    /\ ret.err = "InsufficientLiquidity"
    /\ Ledger = pre

\* C2: the sum of all balances and all pools never exceeds the total
\* deposited, and no call other than a deposit increases that sum.
C2_SupplyConserved ==
    /\ TotalSupply(Ledger) <= deposited
    /\ call.op # "deposit_icp" => TotalSupply(Ledger) <= TotalSupply(pre)

\* the (user, market) of the last call already had an entry in the claim log
ClaimedBefore ==
    \E i \in DOMAIN pre.claims :
        /\ pre.claims[i].user = call.caller
        /\ pre.claims[i].market_id = call.market_id

\* C3: after a user's first successful claim on a market, every later claim by
\* that user on that market returns AlreadyClaimed and leaves the balance
\* unchanged; the claim log never holds two entries for one (user, market).
C3_ClaimAtMostOnce ==
    /\ (call.op = "claim_reward" /\ ClaimedBefore)
       => /\ ret.err = "AlreadyClaimed"
          /\ BalanceOf(Ledger, call.caller) = BalanceOf(pre, call.caller)
    /\ \A i, j \in DOMAIN REWARD_CLAIMS :
          (/\ REWARD_CLAIMS[i].user = REWARD_CLAIMS[j].user
           /\ REWARD_CLAIMS[i].market_id = REWARD_CLAIMS[j].market_id)
          => i = j

\* a second claim by a user whose first claim was paid
C3_Witness ==
    /\ call.op = "claim_reward"
    /\ ClaimedBefore
    /\ ret.err = "AlreadyClaimed"
    /\ BalanceOf(Ledger, call.caller) > 0

\* C4: a buy or sell whose computed output is strictly less than the caller's
\* minimum returns SlippageExceeded and changes nothing; when the computed
\* output equals (or exceeds) the minimum the trade is executed.
C4_SlippageGuard ==
    ((BuyReachedQuote \/ SellReachedQuote) /\ ComputedOut.err = "Ok")
    => IF ComputedOut.val < call.min_out
       THEN ret.err = "SlippageExceeded" /\ Ledger = pre
       ELSE Succeeded /\ ret.val = ComputedOut.val /\ Ledger # pre

\* a buy with the minimum of an outdated quote was refused
C4_Witness ==
    /\ BuyReachedQuote
    /\ call.min_from = "stale"
    /\ ret.err = "SlippageExceeded"

C6_QuoteEqualsExecution ==
    (call.op = "buy" /\ Succeeded)
    => LET q == get_buy_quote(pre, call.market_id, call.amount, call.token_type) IN
       /\ q.err = "Ok"
       /\ q.val = ret.val
       /\ q.fee_paid = ret.fee_paid
       /\ TokensHeld(Ledger, call.caller, call.market_id, call.token_type)
            = TokensHeld(pre, call.caller, call.market_id, call.token_type) + q.val

\* a buy executed right on the reserves its quote was taken at
C6_Witness ==
    /\ call.op = "buy"
    /\ Succeeded
    /\ call.min_from = "fresh"
    /\ ret.val = call.min_out
    /\ ret.fee_paid = 0

\* the caller of the last call was allowed to resolve the market it named
MayResolve ==
    \/ pre.admin = call.caller
    \/ OnMarket /\ pre.markets[call.market_id].admin = call.caller

\* C7: resolve_market by a principal that is neither the current global admin
\* nor the admin of the named market returns Unauthorized and leaves the
\* market's status and winning_outcome unchanged.
C7_ResolveUnauthorized ==
    (call.op = "resolve_market" /\ ~MayResolve)
    => /\ ret.err = "Unauthorized"
       /\ MARKETS = pre.markets

\* an outsider tried to resolve an existing Open market
C7_Witness ==
    /\ call.op = "resolve_market"
    /\ ~MayResolve
    /\ OnMarket
    /\ MARKETS[call.market_id].status = "Open"
    /\ ret.err = "Unauthorized"

\* C8: once a market is Resolved no call changes its status or its
\* winning_outcome, and resolve_market on a market that is not Open returns
\* MarketClosed, also for an authorized caller proposing another outcome.
C8_ResolutionIrreversible ==
    /\ \A m \in DOMAIN pre.markets :
          pre.markets[m].status = "Resolved"
          => /\ m \in DOMAIN MARKETS
             /\ MARKETS[m].status = "Resolved"
             /\ MARKETS[m].winning_outcome = pre.markets[m].winning_outcome
    /\ (/\ call.op = "resolve_market" /\ MayResolve /\ OnMarket
        /\ pre.markets[call.market_id].status # "Open")
       => ret.err = "MarketClosed"

\* an authorized caller proposed the other outcome for a Resolved market
C8_Witness ==
    /\ call.op = "resolve_market"
    /\ MayResolve
    /\ OnMarket
    /\ pre.markets[call.market_id].status = "Resolved"
    /\ pre.markets[call.market_id].winning_outcome # call.token_type
    /\ ret.err = "MarketClosed"

\* C9: after a market is Resolved every buy and every sell on it that reaches
\* the market check returns MarketClosed, and the market's yes_reserve,
\* no_reserve and total_fees_collected never change again.
C9_ResolvedMarketFrozen ==
    /\ (/\ call.op = "buy" /\ call.amount > 0
        /\ BalanceOf(pre, call.caller) >= call.amount
        /\ OnMarket /\ pre.markets[call.market_id].status = "Resolved")
       => ret.err = "MarketClosed"
    /\ (/\ call.op = "sell" /\ call.amount > 0
        /\ TokensHeld(pre, call.caller, call.market_id, call.token_type) >= call.amount
        /\ OnMarket /\ pre.markets[call.market_id].status = "Resolved")
       => ret.err = "MarketClosed"
    /\ \A m \in DOMAIN pre.markets :
          pre.markets[m].status = "Resolved"
          => /\ MARKETS[m].yes_reserve = pre.markets[m].yes_reserve
             /\ MARKETS[m].no_reserve = pre.markets[m].no_reserve
             /\ MARKETS[m].total_fees_collected = pre.markets[m].total_fees_collected

\* a holder tried to sell into a Resolved market
C9_Witness ==
    /\ call.op = "sell"
    /\ call.amount > 0
    /\ TokensHeld(pre, call.caller, call.market_id, call.token_type) >= call.amount
    /\ OnMarket
    /\ pre.markets[call.market_id].status = "Resolved"
    /\ ret.err = "MarketClosed"

\* C10: every market whose status is Open has yes_reserve > 0 and
\* no_reserve > 0.
C10_OpenReservesPositive ==
    \A m \in DOMAIN MARKETS :
        MARKETS[m].status = "Open"
        => MARKETS[m].yes_reserve > 0 /\ MARKETS[m].no_reserve > 0

\* a trade has left one reserve of an Open market at its last unit
C10_Witness ==
    /\ call.op \in {"buy", "sell"}
    /\ Succeeded
    /\ MARKETS[call.market_id].status = "Open"
    /\ \/ MARKETS[call.market_id].yes_reserve = 1
       \/ MARKETS[call.market_id].no_reserve = 1

\* the pricing function named by the last call of MathSpec has been applied
Applied(op) == call.op = op /\ ret # Pending

\* the reserve a buy on the side of the last call takes from: the NO reserve
\* for a YES buy, the YES reserve for a NO buy
Drained == IF call.token_type = "Yes" THEN call.no_reserve ELSE call.yes_reserve

\* C11: calculate_tokens_out fails with InsufficientLiquidity, and returns no
\* value, whenever either reserve is 0 or the fee-adjusted input
\* floor(input * 997 / 1000) is greater than or equal to the reserve being
\* drained.
C11_DrainIsRefused ==
    (/\ Applied("calculate_tokens_out")
     /\ \/ call.yes_reserve = 0
        \/ call.no_reserve = 0
        \/ (call.amount * 997) \div 1000 >= Drained)
    => ret.err = "InsufficientLiquidity"

\* the fee-adjusted input is exactly the drained reserve of a pool with both
\* reserves positive, and the quote was refused
C11_Witness ==
    /\ Applied("calculate_tokens_out")
    /\ call.yes_reserve > 0
    /\ call.no_reserve > 0
    /\ (call.amount * 997) \div 1000 = Drained
    /\ ret.err = "InsufficientLiquidity"

\* the users whose position on market m holds tokens of side tt in ledger L
Holders(L, m, tt) == {u \in Users : TokensHeld(L, u, m, tt) > 0}

\* the last call was a claim_reward on a market that was Resolved
ClaimOnResolved ==
    /\ call.op = "claim_reward"
    /\ OnMarket
    /\ pre.markets[call.market_id].status = "Resolved"

\* C12: in a Resolved market where exactly one position holds winning-side
\* tokens, that holder's claim_reward succeeds, pays exactly the whole
\* icp_liquidity_pool to the holder and leaves the pool at 0.
C12_SoleWinnerTakesPool ==
    (/\ ClaimOnResolved
     /\ Holders(pre, call.market_id,
                pre.markets[call.market_id].winning_outcome) = {call.caller})
    => /\ Succeeded
       /\ ret.val.reward_amount = pre.markets[call.market_id].icp_liquidity_pool
       /\ BalanceOf(Ledger, call.caller)
            = BalanceOf(pre, call.caller)
                + pre.markets[call.market_id].icp_liquidity_pool
       /\ MARKETS[call.market_id].icp_liquidity_pool = 0

\* the only holder of winning tokens has claimed from a pool that was not
\* empty
C12_Witness ==
    /\ ClaimOnResolved
    /\ Holders(pre, call.market_id,
               pre.markets[call.market_id].winning_outcome) = {call.caller}
    /\ pre.markets[call.market_id].icp_liquidity_pool > 0
    /\ Succeeded

\* the buy-YES quote of the worked example has been computed:
\* yes_reserve = no_reserve = 1000, input 100
ExampleQuote ==
    /\ Applied("calculate_tokens_out")
    /\ call.yes_reserve = 1000
    /\ call.no_reserve = 1000
    /\ call.amount = 100
    /\ call.token_type = "Yes"

\* C13 as stated: with yes_reserve = no_reserve = 1000, a buy-YES quote for
\* input 100 uses input_after_fee = 99, k = 1,000,000 and
\* new_no_reserve = 901, and yields new_yes_reserve = 1110 and
\* tokens_out = 110.
C13_ExampleAsStated ==
    ExampleQuote
    => LET input_after_fee == (call.amount * 997) \div 1000
           k == call.yes_reserve * call.no_reserve
           new_no_reserve == call.no_reserve - input_after_fee
       IN  /\ input_after_fee = 99
           /\ k = 1000000
           /\ new_no_reserve = 901
           /\ ret = Ok(110)
           /\ call.yes_reserve + ret.val = 1110

\* C13, amended: with yes_reserve = no_reserve = 1000, a buy-YES quote for
\* input 100 uses input_after_fee = 99, k = 1,000,000 and
\* new_no_reserve = 901, and yields new_yes_reserve = floor(1,000,000 / 901)
\* = 1109 and tokens_out = 109.
C13_ExampleAsComputed ==
    ExampleQuote
    => LET input_after_fee == (call.amount * 997) \div 1000
           k == call.yes_reserve * call.no_reserve
           new_no_reserve == call.no_reserve - input_after_fee
       IN  /\ input_after_fee = 99
           /\ k = 1000000
           /\ new_no_reserve = 901
           /\ ret = Ok(109)
           /\ call.yes_reserve + ret.val = 1109
           /\ call.yes_reserve + ret.val = k \div new_no_reserve

\* the quote of the worked example returned a value
C13_Witness ==
    /\ ExampleQuote
    /\ ret.err = "Ok"

\* the price of side tt of market m in the current state, as a ratio
PriceOf(m, tt) == get_token_price(Ledger, m, tt).val

\* C14: for every market with yes_reserve + no_reserve > 0, in every
\* reachable state, the YES price no/(yes+no) and the NO price yes/(yes+no),
\* taken as exact ratios, sum to exactly 1: the two prices have the same
\* denominator yes+no and their numerators add up to it.
C14_PricesSumToOne ==
    \A m \in DOMAIN MARKETS :
        MARKETS[m].yes_reserve + MARKETS[m].no_reserve > 0
        => /\ get_token_price(Ledger, m, "Yes").err = "Ok"
           /\ get_token_price(Ledger, m, "No").err = "Ok"
           /\ PriceOf(m, "Yes").num = MARKETS[m].no_reserve
           /\ PriceOf(m, "No").num = MARKETS[m].yes_reserve
           /\ PriceOf(m, "Yes").den = MARKETS[m].yes_reserve + MARKETS[m].no_reserve
           /\ PriceOf(m, "No").den = PriceOf(m, "Yes").den
           /\ PriceOf(m, "Yes").num + PriceOf(m, "No").num = PriceOf(m, "Yes").den

\* a trade has left a market with unequal reserves, so with two different
\* prices
C14_Witness ==
    /\ call.op \in {"buy", "sell"}
    /\ Succeeded
    /\ MARKETS[call.market_id].yes_reserve # MARKETS[call.market_id].no_reserve
    /\ PriceOf(call.market_id, "Yes").num # PriceOf(call.market_id, "No").num

\* C15: a buy validates in this order: input_amount = 0 gives InvalidAmount;
\* otherwise a balance below input_amount gives InsufficientDeposit;
\* otherwise a missing market gives MarketNotFound; otherwise a market that
\* is not Open gives MarketClosed; only a buy that passed all four can
\* return an error of the quote or SlippageExceeded.
C15_BuyCheckOrder ==
    call.op = "buy"
    => IF call.amount = 0
       THEN ret.err = "InvalidAmount"
       ELSE IF BalanceOf(pre, call.caller) < call.amount
       THEN ret.err = "InsufficientDeposit"
       ELSE IF ~OnMarket
       THEN ret.err = "MarketNotFound"
       ELSE IF pre.markets[call.market_id].status # "Open"
       THEN ret.err = "MarketClosed"
       ELSE /\ ComputedOut.err # "Ok" => ret.err = ComputedOut.err
            /\ ComputedOut.err = "Ok"
               => ret.err = IF ComputedOut.val < call.min_out
                            THEN "SlippageExceeded" ELSE "Ok"

\* a buy of more than the caller's balance on a market that does not exist:
\* two checks would fail, the balance check is the one reported
C15_Witness ==
    /\ call.op = "buy"
    /\ call.amount > 0
    /\ BalanceOf(pre, call.caller) < call.amount
    /\ ~OnMarket
    /\ ret.err = "InsufficientDeposit"

\* the reserve of side tt of a market record
ReserveOf(market, tt) ==
    IF tt = "Yes" THEN market.yes_reserve ELSE market.no_reserve

\* the side opposite to tt
Opposite(tt) == IF tt = "Yes" THEN "No" ELSE "Yes"

\* C16: a successful buy of input_amount on side S debits the caller's
\* balance by exactly input_amount, credits the caller's position on side S
\* with the tokens_out it returns, adds input_amount - fee to the pool and fee
\* to total_fees_collected (fee = floor(input_amount * 3 / 1000)), raises the
\* S reserve by tokens_out and lowers the opposite reserve by
\* floor(input_amount * 997 / 1000).
C16_BuyEffects ==
    (call.op = "buy" /\ Succeeded)
    => LET m == call.market_id
           S == call.token_type
           fee == (call.amount * 3) \div 1000
           tokens_out == ret.val
       IN  /\ BalanceOf(Ledger, call.caller)
                = BalanceOf(pre, call.caller) - call.amount
           /\ TokensHeld(Ledger, call.caller, m, S)
                = TokensHeld(pre, call.caller, m, S) + tokens_out
           /\ TokensHeld(Ledger, call.caller, m, Opposite(S))
                = TokensHeld(pre, call.caller, m, Opposite(S))
           /\ MARKETS[m].icp_liquidity_pool
                = pre.markets[m].icp_liquidity_pool + call.amount - fee
           /\ MARKETS[m].total_fees_collected
                = pre.markets[m].total_fees_collected + fee
           /\ ReserveOf(MARKETS[m], S) = ReserveOf(pre.markets[m], S) + tokens_out
           /\ ReserveOf(MARKETS[m], Opposite(S))
                = ReserveOf(pre.markets[m], Opposite(S))
                    - (call.amount * 997) \div 1000

\* a buy large enough to pay a fee has succeeded
C16_Witness ==
    /\ call.op = "buy"
    /\ Succeeded
    /\ (call.amount * 3) \div 1000 > 0
    /\ ret.val > 0

\* the tokens of the side named by the last call that its caller held on the
\* market named by the call, when the call started (0 without a position)
CallerHeld == TokensHeld(pre, call.caller, call.market_id, call.token_type)

\* the last call named a market that existed and was not Open
OnClosedMarket == OnMarket /\ pre.markets[call.market_id].status # "Open"

\* C17 as stated: a sell of token_amount on side S by a caller who holds fewer
\* than token_amount of side S on that market, including a caller with no
\* position, returns InvalidAmount; a sell by a caller who holds at least
\* token_amount on a market that is not Open returns MarketClosed.
C17_SellErrorsAsStated ==
    call.op = "sell"
    => /\ CallerHeld < call.amount => ret.err = "InvalidAmount"
       /\ (CallerHeld >= call.amount /\ OnClosedMarket)
          => ret.err = "MarketClosed"

\* C17, amended: a sell of token_amount = 0, or of more than the caller holds
\* of side S on that market (a caller with no position holds 0), returns
\* InvalidAmount; a sell of token_amount >= 1 by a caller who holds at least
\* token_amount on a market that is not Open returns MarketClosed.
C17_SellErrors ==
    call.op = "sell"
    => /\ (call.amount = 0 \/ CallerHeld < call.amount)
          => ret.err = "InvalidAmount"
       /\ (call.amount >= 1 /\ CallerHeld >= call.amount /\ OnClosedMarket)
          => ret.err = "MarketClosed"

\* a caller without a position tried to sell one token into a market that is
\* not Open: the missing tokens are what is reported
C17_Witness ==
    /\ call.op = "sell"
    /\ call.amount >= 1
    /\ <<call.caller, call.market_id>> \notin DOMAIN pre.positions
    /\ OnClosedMarket
    /\ ret.err = "InvalidAmount"

\* C18: a successful sell of token_amount on side S lowers the caller's
\* side-S position and the market's S reserve by token_amount, raises the
\* opposite reserve by gross = floor(k / (S_reserve - token_amount))
\* - opposite_reserve, with k the product of the reserves before the trade,
\* and credits the caller's balance with payout = floor(gross * 997 / 1000),
\* which is the value the sell returns and the value get_sell_quote returns
\* for the same arguments in the state the sell started in.
C18_SellEffects ==
    (call.op = "sell" /\ Succeeded)
    => LET m == call.market_id
           S == call.token_type
           S_reserve == ReserveOf(pre.markets[m], S)
           opposite_reserve == ReserveOf(pre.markets[m], Opposite(S))
           k == pre.markets[m].yes_reserve * pre.markets[m].no_reserve
           gross == (k \div (S_reserve - call.amount)) - opposite_reserve
           payout == (gross * 997) \div 1000
       IN  /\ TokensHeld(Ledger, call.caller, m, S) = CallerHeld - call.amount
           /\ ReserveOf(MARKETS[m], S) = S_reserve - call.amount
           /\ ReserveOf(MARKETS[m], Opposite(S)) = opposite_reserve + gross
           /\ BalanceOf(Ledger, call.caller)
                = BalanceOf(pre, call.caller) + payout
           /\ ret.val = payout
           /\ get_sell_quote(pre, m, call.amount, S).err = "Ok"
           /\ get_sell_quote(pre, m, call.amount, S).val = payout

\* a sell has succeeded and paid out less than its gross output (a fee was
\* taken)
C18_Witness ==
    /\ call.op = "sell"
    /\ Succeeded
    /\ ret.val > 0
    /\ ReserveOf(MARKETS[call.market_id], Opposite(call.token_type))
         - ReserveOf(pre.markets[call.market_id], Opposite(call.token_type))
       > ret.val

RECURSIVE SumHeld(_, _, _, _)
\* the tokens of side tt that the users `who` hold on market m in ledger L
SumHeld(L, who, m, tt) ==
    IF who = {} THEN 0
    ELSE LET u == CHOOSE x \in who : TRUE IN
         TokensHeld(L, u, m, tt) + SumHeld(L, who \ {u}, m, tt)

\* C19: a successful claim pays reward = floor(caller_winning_tokens * pool /
\* total_winning_tokens), the total taken over all positions of that market
\* when the claim starts; it sets claimed_reward on the caller's position and
\* zeroes only the caller's winning-side tokens (the caller's losing side and
\* every other position stay as they were), credits the caller's balance by
\* reward, appends one RewardClaim (user, market, tokens burned, reward) to
\* the claim log and lowers the market's pool by reward.
C19_ClaimEffects ==
    (call.op = "claim_reward" /\ Succeeded)
    => LET m == call.market_id
           key == <<call.caller, m>>
           w == pre.markets[m].winning_outcome
           caller_winning_tokens == TokensHeld(pre, call.caller, m, w)
           total_winning_tokens == SumHeld(pre, Users, m, w)
           pool == pre.markets[m].icp_liquidity_pool
           reward == (caller_winning_tokens * pool) \div total_winning_tokens
       IN  /\ ret.val = RewardClaim(call.caller, m, caller_winning_tokens, reward)
           /\ USER_POSITIONS[key].claimed_reward
           /\ TokensHeld(Ledger, call.caller, m, w) = 0
           /\ TokensHeld(Ledger, call.caller, m, Opposite(w))
                = TokensHeld(pre, call.caller, m, Opposite(w))
           /\ DOMAIN USER_POSITIONS = DOMAIN pre.positions
           /\ \A other \in DOMAIN USER_POSITIONS :
                 other # key => USER_POSITIONS[other] = pre.positions[other]
           /\ BalanceOf(Ledger, call.caller) = BalanceOf(pre, call.caller) + reward
           /\ REWARD_CLAIMS = Append(pre.claims, ret.val)
           /\ MARKETS[m].icp_liquidity_pool = pool - reward

\* a holder has claimed while another position still held winning tokens, so
\* the reward is a proper share of the pool
C19_Witness ==
    /\ call.op = "claim_reward"
    /\ Succeeded
    /\ Holders(pre, call.market_id, pre.markets[call.market_id].winning_outcome)
         = Users
    /\ ret.val.reward_amount > 0
    /\ ret.val.reward_amount < pre.markets[call.market_id].icp_liquidity_pool
    /\ MARKETS[call.market_id].icp_liquidity_pool > 0

\* the caller of the last call had, when the call started, a position on the
\* market of the call with claimed_reward set
CallerFlagged ==
    /\ <<call.caller, call.market_id>> \in DOMAIN pre.positions
    /\ pre.positions[<<call.caller, call.market_id>>].claimed_reward

\* C20: claim_reward on a market that does not exist returns MarketNotFound
\* and on a market that is not Resolved returns MarketClosed; on a Resolved
\* market it returns AlreadyClaimed when the caller's position has
\* claimed_reward set, and otherwise NoWinningTokens when the caller has no
\* position or holds zero winning-side tokens (AlreadyClaimed comes first).
C20_ClaimErrors ==
    call.op = "claim_reward"
    => IF ~OnMarket
       THEN ret.err = "MarketNotFound"
       ELSE IF pre.markets[call.market_id].status # "Resolved"
       THEN ret.err = "MarketClosed"
       ELSE IF CallerFlagged
       THEN ret.err = "AlreadyClaimed"
       ELSE TokensHeld(pre, call.caller, call.market_id,
                       pre.markets[call.market_id].winning_outcome) = 0
            => ret.err = "NoWinningTokens"

\* a claim on a Resolved market by a caller whose position is flagged and
\* holds no winning tokens: both errors apply, AlreadyClaimed is returned
C20_Witness ==
    /\ ClaimOnResolved
    /\ CallerFlagged
    /\ TokensHeld(pre, call.caller, call.market_id,
                  pre.markets[call.market_id].winning_outcome) = 0
    /\ ret.err = "AlreadyClaimed"

RECURSIVE SumRewards(_, _)
\* the rewards the claim log records for market m
SumRewards(claims, m) ==
    IF claims = <<>> THEN 0
    ELSE (IF Head(claims).market_id = m THEN Head(claims).reward_amount ELSE 0)
           + SumRewards(Tail(claims), m)

\* the pool of market m when it was resolved
PoolAtResolution(m) == at_resolution[m].markets[m].icp_liquidity_pool

\* the winning side of market m
WinningSide(m) == at_resolution[m].markets[m].winning_outcome

\* the users who held winning tokens of market m when it was resolved
WinnersAtResolution(m) == Holders(at_resolution[m], m, WinningSide(m))

\* the claim log has an entry of user u for market m
HasClaimed(u, m) ==
    \E i \in DOMAIN REWARD_CLAIMS :
        REWARD_CLAIMS[i].user = u /\ REWARD_CLAIMS[i].market_id = m

\* every holder of winning tokens of market m has claimed
AllWinnersClaimed(m) == \A u \in WinnersAtResolution(m) : HasClaimed(u, m)

\* C21 as stated: in a Resolved market, for every order in which the holders
\* of winning tokens claim, the sum of the rewards paid never exceeds the
\* pool at resolution time, and once every holder of winning tokens has
\* claimed the sum equals that pool exactly and the market's pool is 0.
C21_RewardsEqualPoolAsStated ==
    \A m \in DOMAIN at_resolution :
        /\ SumRewards(REWARD_CLAIMS, m) <= PoolAtResolution(m)
        /\ AllWinnersClaimed(m)
           => /\ SumRewards(REWARD_CLAIMS, m) = PoolAtResolution(m)
              /\ MARKETS[m].icp_liquidity_pool = 0

\* C21, amended: in a Resolved market, for every order of claims, the sum of
\* the rewards paid never exceeds the pool at resolution time; if at least
\* one position held winning tokens at resolution, then once every holder of
\* winning tokens has claimed the sum equals that pool exactly and the
\* market's pool is 0.  (With no holder of winning tokens nothing is ever
\* paid and the pool stays as it was.)
C21_RewardsEqualPool ==
    \A m \in DOMAIN at_resolution :
        /\ SumRewards(REWARD_CLAIMS, m) <= PoolAtResolution(m)
        /\ (WinnersAtResolution(m) # {} /\ AllWinnersClaimed(m))
           => /\ SumRewards(REWARD_CLAIMS, m) = PoolAtResolution(m)
              /\ MARKETS[m].icp_liquidity_pool = 0
        /\ WinnersAtResolution(m) = {}
           => /\ SumRewards(REWARD_CLAIMS, m) = 0
              /\ MARKETS[m].icp_liquidity_pool = PoolAtResolution(m)

\* two holders of winning tokens have both claimed, each a proper share
C21_Witness ==
    \E m \in DOMAIN at_resolution :
        /\ WinnersAtResolution(m) = Users
        /\ AllWinnersClaimed(m)
        /\ \A i \in DOMAIN REWARD_CLAIMS : REWARD_CLAIMS[i].reward_amount > 0
        /\ Len(REWARD_CLAIMS) = 2

\* the last call was a successful claim_reward
ClaimPaid == call.op = "claim_reward" /\ Succeeded

Target == IF call.token_type = "Yes" THEN call.yes_reserve ELSE call.no_reserve

\* a buy quote of MathSpec has returned a value
BuyQuoted == Applied("calculate_tokens_out") /\ ret.err = "Ok"

\* the product of the reserves the computed swap leads to:
\* (target_reserve + tokens_out) * (drained_reserve - input_after_fee)
EffectiveProduct ==
    (Target + ret.val) * (Drained - (call.amount * 997) \div 1000)

BuyDone == call.op = "buy" /\ Succeeded

\* what the last (successful) buy took off the reserve opposite to the side
\* bought
DrainedByBuy ==
    ReserveOf(pre.markets[call.market_id], Opposite(call.token_type))
      - ReserveOf(MARKETS[call.market_id], Opposite(call.token_type))

\* what the last (successful) buy added to the market's pool
PooledByBuy ==
    MARKETS[call.market_id].icp_liquidity_pool
      - pre.markets[call.market_id].icp_liquidity_pool

\* C24 as stated: for every input amount, the fee-adjusted input
\* floor(input * 997 / 1000) equals input minus the fee
\* floor(input * 3 / 1000); hence the amount a buy removes from the drained
\* reserve equals the amount input - fee that the same buy adds to the
\* market's pool.
C24_FeeSplitAsStated ==
    BuyDone
    => /\ (call.amount * 997) \div 1000
            = call.amount - (call.amount * 3) \div 1000
       /\ DrainedByBuy = PooledByBuy

\* C24, amended: a buy removes floor(input * 997 / 1000) from the drained
\* reserve and adds input - floor(input * 3 / 1000) to the pool; the two are
\* equal when input is a multiple of 1000, and otherwise both divisions
\* truncate and the reserve loses exactly one unit less than the pool gains.
C24_FeeSplit ==
    BuyDone
    => /\ DrainedByBuy = (call.amount * 997) \div 1000
       /\ PooledByBuy = call.amount - (call.amount * 3) \div 1000
       /\ PooledByBuy - DrainedByBuy = IF call.amount % 1000 = 0 THEN 0 ELSE 1

\* a buy of a multiple of 1000 has succeeded: the reserve lost what the pool
\* gained
C24_Witness ==
    /\ BuyDone
    /\ call.amount % 1000 = 0
    /\ DrainedByBuy = PooledByBuy
    /\ DrainedByBuy > 0

\* C25: no buy passes with zero output: a buy that reaches the quote, with a
\* fee-adjusted input below the drained reserve, returns InvalidAmount
\* whenever floor(k / new_drained_reserve) does not exceed the current target
\* reserve; and every successful buy credits at least 1 token to the caller
\* and strictly raises the bought side's reserve.
C25_NoZeroOutputBuy ==
    /\ BuyReachedQuote
       => LET market == pre.markets[call.market_id]
              target_reserve == ReserveOf(market, call.token_type)
              drained_reserve == ReserveOf(market, Opposite(call.token_type))
              k == market.yes_reserve * market.no_reserve
              input_after_fee == (call.amount * 997) \div 1000
          IN  (/\ input_after_fee < drained_reserve
               /\ k \div (drained_reserve - input_after_fee) <= target_reserve)
              => ret.err = "InvalidAmount"
    /\ BuyDone
       => /\ ret.val >= 1
          /\ TokensHeld(Ledger, call.caller, call.market_id, call.token_type)
               >= CallerHeld + 1
          /\ ReserveOf(MARKETS[call.market_id], call.token_type)
               > ReserveOf(pre.markets[call.market_id], call.token_type)

\* a buy so small that the new target reserve is the old one was refused
C25_Witness ==
    /\ BuyReachedQuote
    /\ call.amount >= 1
    /\ ComputedOut.err = "InvalidAmount"
    /\ ret.err = "InvalidAmount"
    /\ Ledger = pre

\* C26: claim_reward never returns InsufficientLiquidity: whenever the caller
\* of a claim on a Resolved market is not flagged and holds winning tokens,
\* the total of winning-side tokens over the market's positions is at least
\* the caller's own count, so it is not zero, and the claim (the holder's
\* first) succeeds.
C26_ClaimNeverStarved ==
    /\ call.op = "claim_reward" => ret.err # "InsufficientLiquidity"
    /\ (/\ ClaimOnResolved
        /\ ~CallerFlagged
        /\ TokensHeld(pre, call.caller, call.market_id,
                      pre.markets[call.market_id].winning_outcome) > 0)
       => /\ TotalWinningTokens(pre, call.market_id,
                                pre.markets[call.market_id].winning_outcome)
               >= TokensHeld(pre, call.caller, call.market_id,
                             pre.markets[call.market_id].winning_outcome)
          /\ Succeeded

\* the first claim of a holder of winning tokens was paid
C26_Witness ==
    /\ ClaimOnResolved
    /\ ~CallerFlagged
    /\ ~ClaimedBefore
    /\ TokensHeld(pre, call.caller, call.market_id,
                  pre.markets[call.market_id].winning_outcome) > 0
    /\ Succeeded
    /\ Len(REWARD_CLAIMS) = Len(pre.claims) + 1

\* C27: for every successful claim_reward the reward is at most the market's
\* icp_liquidity_pool at the time of the claim (so it fits the 64 bits of the
\* pool it is taken from), and the saturating subtraction does not clamp: the
\* pool after the claim is exactly the pool before it minus the reward.
C27_RewardWithinPool ==
    ClaimPaid
    => /\ ret.val.reward_amount >= 0
       /\ ret.val.reward_amount <= pre.markets[call.market_id].icp_liquidity_pool
       /\ MARKETS[call.market_id].icp_liquidity_pool
            = pre.markets[call.market_id].icp_liquidity_pool
                - ret.val.reward_amount

\* a holder of winning tokens has claimed while the other side was held too
\* and got a proper share, less than the pool
C27_Witness ==
    /\ ClaimPaid
    /\ Holders(pre, call.market_id,
               Opposite(pre.markets[call.market_id].winning_outcome)) # {}
    /\ Holders(pre, call.market_id,
               pre.markets[call.market_id].winning_outcome) = Users
    /\ ret.val.reward_amount > 0
    /\ MARKETS[call.market_id].icp_liquidity_pool > 0

\* the last call was create_market
CreateCalled == call.op = "create_market"

\* C28: market identifiers are the numbers 1, 2, 3, ... in the order of
\* creation: the stored keys are exactly 1 .. NEXT_MARKET_ID - 1, every market's
\* id field is its key, the n-th successful create_market returns n and stores
\* the new market under n without touching the others, a failed create_market
\* leaves NEXT_MARKET_ID and the markets as they were, and no other call moves
\* NEXT_MARKET_ID or the set of keys.
C28_MarketIdsSequential ==
    /\ DOMAIN MARKETS = 1..(NEXT_MARKET_ID - 1)
    /\ \A m \in DOMAIN MARKETS : MARKETS[m].id = m
    /\ (CreateCalled /\ Succeeded)
       => /\ ret.val = Cardinality(DOMAIN pre.markets) + 1
          /\ ret.val = pre.next_id
          /\ NEXT_MARKET_ID = pre.next_id + 1
          /\ DOMAIN MARKETS = (DOMAIN pre.markets) \cup {ret.val}
          /\ ret.val \notin DOMAIN pre.markets
          /\ \A m \in DOMAIN pre.markets : MARKETS[m] = pre.markets[m]
    /\ (CreateCalled /\ Failed)
       => /\ NEXT_MARKET_ID = pre.next_id
          /\ MARKETS = pre.markets
    /\ ~CreateCalled
       => /\ NEXT_MARKET_ID = pre.next_id
          /\ DOMAIN MARKETS = DOMAIN pre.markets

\* the third market was created by a user other than the creator of the
\* first, after a market had been resolved, and got the identifier 3
C28_Witness ==
    /\ CreateCalled
    /\ Succeeded
    /\ ret.val = 3
    /\ MARKETS[3].creator # MARKETS[1].creator
    /\ \E m \in DOMAIN pre.markets : pre.markets[m].status = "Resolved"

\* C29: REWARD_CLAIMS is append-only.  Over every call the log keeps all the
\* entries it had, in place and unchanged (user, market_id, winning_tokens and
\* reward_amount), so its length never decreases; a successful claim_reward
\* appends exactly one entry, the claim it returns, and every other call, and
\* every failed call, leaves the log as it was.
C29_ClaimLogAppendOnly ==
    /\ Len(REWARD_CLAIMS) >= Len(pre.claims)
    /\ \A i \in 1..Len(pre.claims) : REWARD_CLAIMS[i] = pre.claims[i]
    /\ (call.op = "claim_reward" /\ Succeeded)
       => /\ Len(REWARD_CLAIMS) = Len(pre.claims) + 1
          /\ REWARD_CLAIMS[Len(REWARD_CLAIMS)] = ret.val
          /\ ret.val.user = call.caller
          /\ ret.val.market_id = call.market_id
    /\ ~(call.op = "claim_reward" /\ Succeeded)
       => REWARD_CLAIMS = pre.claims

\* a second claim, by another user with another reward, was appended behind
\* the first
C29_Witness ==
    /\ call.op = "claim_reward"
    /\ Succeeded
    /\ Len(pre.claims) = 1
    /\ Len(REWARD_CLAIMS) = 2
    /\ REWARD_CLAIMS[1].user # REWARD_CLAIMS[2].user
    /\ REWARD_CLAIMS[1].reward_amount # REWARD_CLAIMS[2].reward_amount

\* the last call was a successful op by the owner of the position under key
OwnerCall(key, op) ==
    /\ call.op = op
    /\ Succeeded
    /\ call.caller = key[1]
    /\ call.market_id = key[2]

\* tokens of one side under a position key (0 while there is no position)
KeyTokens(L, key, tt) == TokensHeld(L, key[1], key[2], tt)

\* C30: over every call, no position disappears and a claimed_reward that was
\* true stays true; a position that appears was created by a successful buy
\* of its owner in its market (the owner's first, as there was none before);
\* a side of a position grows only by a successful buy of that side by the
\* owner, and shrinks only by a successful sell of that side by the owner or
\* by the owner's successful claim, which burns the winning side to 0.
C30_PositionLifecycle ==
    /\ DOMAIN pre.positions \subseteq DOMAIN USER_POSITIONS
    /\ \A key \in DOMAIN pre.positions :
          pre.positions[key].claimed_reward => USER_POSITIONS[key].claimed_reward
    /\ \A key \in DOMAIN USER_POSITIONS :
          /\ USER_POSITIONS[key].user = key[1]
          /\ USER_POSITIONS[key].market_id = key[2]
          /\ key \notin DOMAIN pre.positions => OwnerCall(key, "buy")
          /\ \A tt \in TokenTypes :
                /\ KeyTokens(Ledger, key, tt) > KeyTokens(pre, key, tt)
                   => /\ OwnerCall(key, "buy")
                      /\ call.token_type = tt
                /\ KeyTokens(Ledger, key, tt) < KeyTokens(pre, key, tt)
                   => \/ /\ OwnerCall(key, "sell")
                         /\ call.token_type = tt
                      \/ /\ OwnerCall(key, "claim_reward")
                         /\ tt = pre.markets[key[2]].winning_outcome
                         /\ KeyTokens(Ledger, key, tt) = 0

\* a user's claim burned the winning side of their position to 0 while the
\* other user's position, claimed before, stayed claimed
C30_Witness ==
    /\ call.op = "claim_reward"
    /\ Succeeded
    /\ \E key \in DOMAIN pre.positions :
          /\ key[1] # call.caller
          /\ pre.positions[key].claimed_reward
          /\ USER_POSITIONS[key].claimed_reward
    /\ \E tt \in TokenTypes :
          /\ KeyTokens(pre, <<call.caller, call.market_id>>, tt) > 0
          /\ KeyTokens(Ledger, <<call.caller, call.market_id>>, tt) = 0

\* C31: every stored market is Open or Resolved, never Frozen, and it has a
\* winning_outcome (Yes or No) exactly when it is Resolved.
C31_StatusOpenOrResolved ==
    \A m \in DOMAIN MARKETS :
        /\ MARKETS[m].status \in {"Open", "Resolved"}
        /\ MARKETS[m].status = "Resolved" <=> MARKETS[m].winning_outcome \in TokenTypes
        /\ MARKETS[m].status = "Open" <=> MARKETS[m].winning_outcome = "None"

\* a market has just been resolved while another one is still open
C31_Witness ==
    /\ call.op = "resolve_market"
    /\ Succeeded
    /\ MARKETS[call.market_id].status = "Resolved"
    /\ pre.markets[call.market_id].status = "Open"
    /\ \E m \in DOMAIN MARKETS : MARKETS[m].status = "Open"

\* C32: create_market with an initial amount below 1000 or above the caller's
\* balance returns InsufficientDeposit (and changes nothing); any other
\* create_market succeeds, takes the initial amount off the caller's balance
\* and stores, under the returned id, an Open market with both reserves 500,
\* the initial amount as pool, no fees, no winning_outcome, and the caller as
\* creator and admin.
C32_CreateMarket ==
    CreateCalled
    => IF \/ call.amount < 1000
          \/ call.amount > BalanceOf(pre, call.caller)
       THEN /\ ret.err = "InsufficientDeposit"
            /\ Ledger = pre
       ELSE /\ Succeeded
            /\ USER_BALANCES[call.caller] = BalanceOf(pre, call.caller) - call.amount
            /\ ret.val \in DOMAIN MARKETS
            /\ MARKETS[ret.val].status = "Open"
            /\ MARKETS[ret.val].yes_reserve = 500
            /\ MARKETS[ret.val].no_reserve = 500
            /\ MARKETS[ret.val].icp_liquidity_pool = call.amount
            /\ MARKETS[ret.val].total_fees_collected = 0
            /\ MARKETS[ret.val].winning_outcome = "None"
            /\ MARKETS[ret.val].creator = call.caller
            /\ MARKETS[ret.val].admin = call.caller

\* a caller has put their whole remaining balance into a second market
C32_Witness ==
    /\ CreateCalled
    /\ Succeeded
    /\ BalanceOf(pre, call.caller) = call.amount
    /\ USER_BALANCES[call.caller] = 0
    /\ \E m \in DOMAIN pre.markets : pre.markets[m].creator = call.caller

\* the operations the balances are said to move with
BalanceOps == {"deposit_icp", "buy", "sell", "claim_reward"}

\* C33 as stated: balances are mutated only by deposit, buy, sell and claim;
\* every other call leaves USER_BALANCES as it was.
C33_BalanceFrameAsStated ==
    call.op \notin BalanceOps => USER_BALANCES = pre.balances

\* C33: balances are mutated only by deposit, market creation (the creator
\* pays the initial pool), buy, sell and claim; every other call, by any
\* caller, leaves USER_BALANCES as it was.
C33_BalanceFrame ==
    call.op \notin (BalanceOps \cup {"create_market"}) => USER_BALANCES = pre.balances

\* a market with fees collected has been resolved while its creator, who is
\* its admin, and a trader hold balances
C33_Witness ==
    /\ call.op = "resolve_market"
    /\ Succeeded
    /\ pre.markets[call.market_id].total_fees_collected > 0
    /\ \E u \in DOMAIN USER_BALANCES : USER_BALANCES[u] > 0
    /\ USER_BALANCES = pre.balances

\* the last call was a successful buy, sell or claim
TradedOrClaimed == call.op \in {"buy", "sell", "claim_reward"} /\ Succeeded

\* every balance but the caller's is as it was before the call
OtherBalancesKept ==
    \A u \in (DOMAIN USER_BALANCES) \cup (DOMAIN pre.balances) :
        u # call.caller
        => /\ u \in DOMAIN USER_BALANCES
           /\ u \in DOMAIN pre.balances
           /\ USER_BALANCES[u] = pre.balances[u]

\* every position but the caller's in the named market is as it was
OtherPositionsKept ==
    \A key \in (DOMAIN USER_POSITIONS) \cup (DOMAIN pre.positions) :
        key # <<call.caller, call.market_id>>
        => /\ key \in DOMAIN USER_POSITIONS
           /\ key \in DOMAIN pre.positions
           /\ USER_POSITIONS[key] = pre.positions[key]

\* every market but the named one is as it was
OtherMarketsKept ==
    \A m \in (DOMAIN MARKETS) \cup (DOMAIN pre.markets) :
        m # call.market_id
        => /\ m \in DOMAIN MARKETS
           /\ m \in DOMAIN pre.markets
           /\ MARKETS[m] = pre.markets[m]

\* C34: a successful buy, sell or claim by u on m leaves every other user's
\* balance, every position other than (u, m) and every market other than m
\* as they were; a successful resolve_market on m changes nothing but m's
\* status and winning_outcome.
C34_OnlyCallerAndMarket ==
    /\ TradedOrClaimed
       => /\ OtherBalancesKept
          /\ OtherPositionsKept
          /\ OtherMarketsKept
    /\ (call.op = "resolve_market" /\ Succeeded)
       => /\ USER_BALANCES = pre.balances
          /\ USER_POSITIONS = pre.positions
          /\ REWARD_CLAIMS = pre.claims
          /\ NEXT_MARKET_ID = pre.next_id
          /\ ADMIN = pre.admin
          /\ OtherMarketsKept
          /\ MARKETS[call.market_id]
               = [pre.markets[call.market_id] EXCEPT
                     !.status = "Resolved", !.winning_outcome = call.token_type]

\* a user holding positions in both markets has claimed in one of them,
\* while the other user holds a balance
C34_Witness ==
    /\ call.op = "claim_reward"
    /\ Succeeded
    /\ ret.val.reward_amount > 0
    /\ \E key \in DOMAIN pre.positions :
          /\ key[1] = call.caller
          /\ key[2] # call.market_id
          /\ pre.positions[key].yes_tokens + pre.positions[key].no_tokens > 0
    /\ \E u \in DOMAIN pre.balances : u # call.caller /\ pre.balances[u] > 0

\* C35: a successful sell lowers the market's icp_liquidity_pool by exactly
\* the payout credited to the seller's balance; the payout never exceeds the
\* pool, so the saturating subtraction never clamps at zero.
C35_SellWithinPool ==
    (call.op = "sell" /\ Succeeded)
    => LET payout == BalanceOf(Ledger, call.caller) - BalanceOf(pre, call.caller)
           pool == pre.markets[call.market_id].icp_liquidity_pool
       IN  /\ payout <= pool
           /\ MARKETS[call.market_id].icp_liquidity_pool = pool - payout

\* the product of a market's two reserves
ReserveProduct(market) == market.yes_reserve * market.no_reserve

\* C36: no call raises a market's product yes_reserve * no_reserve (a buy or
\* a sell leaves it at or below its value before the trade, every other call
\* leaves it alone), so in every state every market's product is at most the
\* seeded 500 * 500 = 250000.
C36_ProductNeverIncreases ==
    /\ \A m \in DOMAIN MARKETS : ReserveProduct(MARKETS[m]) <= 250000
    /\ \A m \in DOMAIN pre.markets :
          /\ ReserveProduct(MARKETS[m]) <= ReserveProduct(pre.markets[m])
          /\ ~(call.op \in {"buy", "sell"} /\ Succeeded /\ call.market_id = m)
             => ReserveProduct(MARKETS[m]) = ReserveProduct(pre.markets[m])

\* a sell has lowered a product that an earlier buy had already brought
\* below 250000
C36_Witness ==
    /\ call.op = "sell"
    /\ Succeeded
    /\ ReserveProduct(pre.markets[call.market_id]) < 250000
    /\ ReserveProduct(MARKETS[call.market_id])
          < ReserveProduct(pre.markets[call.market_id])

\* user u could resolve market m of the current ledger right now
CanResolve(u, m) ==
    \A outcome \in TokenTypes : resolve_market(Ledger, u, m, outcome).res.err = "Ok"

\* C37: set_admin(p) succeeds whoever calls it and whoever is admin, and
\* makes p the global admin; reset_admin succeeds and leaves no global admin.
\* In every state the principals that can resolve an Open market are exactly
\* the global admin, if there is one, and the market's own admin: a principal
\* made admin by set_admin can resolve markets it did not create, and with
\* no global admin only the market's own admin can.
C37_AdminUnchecked ==
    /\ call.op = "set_admin" => (Succeeded /\ ADMIN = call.principal)
    /\ call.op = "reset_admin" => (Succeeded /\ ADMIN = NoPrincipal)
    /\ \A m \in DOMAIN MARKETS :
          MARKETS[m].status = "Open"
          => \A u \in Users :
                CanResolve(u, m) <=> (u = ADMIN \/ u = MARKETS[m].admin)
    /\ (call.op = "resolve_market" /\ Succeeded)
       => \/ call.caller = pre.admin
          \/ call.caller = pre.markets[call.market_id].admin

\* a user who is neither the deployer nor the market's creator or admin has
\* resolved the market, as the global admin set_admin made of them
C37_Witness ==
    /\ call.op = "resolve_market"
    /\ Succeeded
    /\ call.caller # Deployer
    /\ call.caller # pre.markets[call.market_id].creator
    /\ call.caller # pre.markets[call.market_id].admin
    /\ call.caller = pre.admin

\* C38: every successful sell pays out a strictly positive amount: a sell of
\* token_amount >= 1 that returns a receipt credits the seller's balance with
\* at least 1.
C38_SellPaysAtLeastOne ==
    (call.op = "sell" /\ Succeeded /\ call.amount >= 1)
    => /\ ret.val >= 1
       /\ BalanceOf(Ledger, call.caller) >= BalanceOf(pre, call.caller) + 1

\* the price of the side of the last call, in its market, before the call
PriceBefore == get_token_price(pre, call.market_id, call.token_type).val

\* the same price after the call
PriceAfter == get_token_price(Ledger, call.market_id, call.token_type).val

GrossPayout ==
    ReserveOf(MARKETS[call.market_id], Opposite(call.token_type))
      - ReserveOf(pre.markets[call.market_id], Opposite(call.token_type))

\* what the last (successful) sell added to total_fees_collected
FeeBooked ==
    MARKETS[call.market_id].total_fees_collected
      - pre.markets[call.market_id].total_fees_collected

\* C40: on every successful sell with gross payout g the seller receives
\* n = floor(g * 997 / 1000); the amount added to total_fees_collected is
\* floor(g * 3 / 1000) and the receipt's fee_paid is floor(n * 3 / 997), and
\* neither exceeds the fee actually withheld, g - n.
C40_SellFeeBounds ==
    (call.op = "sell" /\ Succeeded)
    => LET g == GrossPayout
           n == (g * 997) \div 1000
       IN  /\ ret.val = n
           /\ BalanceOf(Ledger, call.caller) = BalanceOf(pre, call.caller) + n
           /\ FeeBooked = (g * 3) \div 1000
           /\ ret.fee_paid = (n * 3) \div 997
           /\ FeeBooked <= g - n
           /\ ret.fee_paid <= g - n

\* a sell large enough to book a fee and to report one in its receipt has
\* withheld more than it booked
C40_Witness ==
    /\ call.op = "sell"
    /\ Succeeded
    /\ FeeBooked >= 1
    /\ ret.fee_paid >= 1
    /\ FeeBooked < GrossPayout - ret.val

====
